---- MODULE Spec2Model ----
(***************************************************************************)
(* The ingestion-and-retrieval engine of kiali-mcp (package rag): the      *)
(* document/embedding store with its maintenance operations, the chunker,  *)
(* the linear-scan and index-assisted search, the documentation crawler    *)
(* and the answer orchestrator.                                            *)
(*                                                                         *)
(* Texts are sequences of one-character strings.  A float32 is modelled by *)
(* its IEEE-754 bit pattern (only patterns below 2^31, i.e. non-negative   *)
(* floats, so that the pattern fits the checker's integers); FloatVal      *)
(* gives the number a pattern stands for.                                  *)
(***************************************************************************)
EXTENDS Integers, Sequences, FiniteSets, TLC

VARIABLES
    backend,        \* engine.backend: "sqlite" or "postgres"
    documents,      \* table documents: set of rows [id, title, url, content]
    embeddings,     \* table embeddings: rows in insertion (rowid) order
    nextId,         \* the AUTOINCREMENT / BIGSERIAL sequence of documents.id
    last,           \* the last handler call: its name, outcome and call counts
    text,           \* chunker harness: the text given to splitIntoChunks
    wordsPerChunk,  \* chunker harness: the window size
    chunks,         \* chunker harness: [done, out], out the result once done
    web,            \* the site IngestKialiDocs crawls: URL -> page
    ingest,         \* the locals of the running ingestion call
    playlist,       \* expandPlaylist harness: the call, its environment, its result
    procs,          \* concurrent requests: the running call of every worker
    started,        \* concurrent requests: the calls started so far
    auth,           \* AuthMiddleware: the server's settings, the request served last
    calc            \* vector helpers harness: the arguments and the results

vars == <<backend, documents, embeddings, nextId, last, text, wordsPerChunk, chunks,
          web, ingest, playlist, procs, started, auth, calc>>

storeVars == <<backend, documents, embeddings, nextId, last>>
chunkVars == <<text, wordsPerChunk, chunks>>
ingestVars == <<web, ingest>>
concVars == <<procs, started>>
auxVars == <<playlist, procs, started, auth, calc>>

----------------------------------------------------------------------------
(* Bounds of the model *)

MaxDocs == 3        \* document rows inserted in one behaviour
MaxTextLen == 5     \* chunker harness: characters of the input text
MaxWindow == 2      \* chunker harness: largest window size tried

MaxQueryDocs == 2   \* query specification: document rows inserted
MaxIngests == 2     \* ingestion specification: calls of the two handlers
MaxVecLen == 2      \* vector helpers harness: components of a vector
MaxBlobLen == 5     \* vector helpers harness: bytes of a blob

(* Program constants *)

ChunkWindow == 800  \* upsertDocument: splitIntoChunks(content, 800)
SnippetLen == 160   \* upsertDocument: ch[:min(160, len(ch))]
embeddingDim == 2   \* engine.embeddingDim under the configuration EMBEDDING_DIM=2
AnswerK == 8        \* Answer: e.search(ctx, emb, 8)
MinSectionLen == 10 \* IngestKialiDocs: len(strings.TrimSpace(sec.Content)) < 10
MinBodyLen == 200   \* IngestYouTube: len(body) < 200

----------------------------------------------------------------------------
(* Go helpers *)

min(a, b) == IF a < b THEN a ELSE b

\* unicode.IsSpace on the characters the model uses
IsSpace(c) == c \in {" ", "\t", "\n", "\r"}

WordStarts(t) ==
    {i \in 1..Len(t) : ~IsSpace(t[i]) /\ (i = 1 \/ IsSpace(t[i-1]))}

WordEnds(t) ==
    {i \in 1..Len(t) : ~IsSpace(t[i]) /\ (i = Len(t) \/ IsSpace(t[i+1]))}

\* the members of S within lo..hi, in increasing order
RECURSIVE SortedRange(_, _, _)
SortedRange(S, lo, hi) ==
    IF lo > hi THEN <<>>
    ELSE IF lo = hi THEN (IF lo \in S THEN <<lo>> ELSE <<>>)
    ELSE LET mid == (lo + hi) \div 2
         IN  SortedRange(S, lo, mid) \o SortedRange(S, mid + 1, hi)

\* strings.Fields: the maximal runs of non-space characters, in order
Fields(t) ==
    LET s == SortedRange(WordStarts(t), 1, Len(t))
        e == SortedRange(WordEnds(t), 1, Len(t))
    IN  [k \in 1..Len(s) |-> SubSeq(t, s[k], e[k])]

RECURSIVE JoinRange(_, _, _, _)
JoinRange(ws, sep, lo, hi) ==
    IF lo > hi THEN <<>>
    ELSE IF lo = hi THEN ws[lo]
    ELSE LET mid == (lo + hi) \div 2
         IN  JoinRange(ws, sep, lo, mid) \o sep \o JoinRange(ws, sep, mid + 1, hi)

\* faulty variant: the words are joined without the separator
JoinNoSeparator(ws, sep) == JoinRange(ws, <<>>, 1, Len(ws))

\* strings.Join
Join(ws, sep) == JoinRange(ws, sep, 1, Len(ws))

\* strings.TrimSpace
TrimSpace(t) ==
    LET s == WordStarts(t)
        e == WordEnds(t)
    IN  IF s = {} THEN <<>>
        ELSE SubSeq(t, CHOOSE i \in s : \A j \in s : i <= j,
                       CHOOSE i \in e : \A j \in e : i >= j)

----------------------------------------------------------------------------
(* Chunker *)

\* the for loop of splitIntoChunks: i is the 0-based index of the next word
RECURSIVE splitLoop(_, _, _, _)
splitLoop(words, w, i, acc) ==
    IF i >= Len(words) THEN acc
    ELSE LET end == IF i + w > Len(words) THEN Len(words) ELSE i + w
         IN  splitLoop(words, w, i + w,
                       Append(acc, Join(SubSeq(words, i + 1, end), <<" ">>)))

\* faulty variant: the loop runs while i + wordsPerChunk <= len(words), dropping the
\* final shorter window
splitIntoChunksDropTail(t, w) ==
    LET words == Fields(t)
    IN  splitLoop(SubSeq(words, 1, (Len(words) \div w) * w), w, 0, <<>>)

splitIntoChunks(t, w) == splitLoop(Fields(t), w, 0, <<>>)

----------------------------------------------------------------------------
(* float32 values and the blob encoding of the sqlite backend *)

\* the float32 bit patterns the model uses, and the numbers they stand for
\* (0.0, 1.0, 2.0, 19.0, 20.0)
FloatVal ==
    (0 :> 0) @@ (1065353216 :> 1) @@ (1073741824 :> 2) @@
    (1100480512 :> 19) @@ (1101004800 :> 20)

\* the bit pattern of a number of the table
F32(v) == CHOOSE b \in DOMAIN FloatVal : FloatVal[b] = v

\* byte(bits >> (8*k))
ByteOf(bits, k) == (bits \div (256 ^ k)) % 256

\* faulty variant: the most significant byte is written first
floatsToBlobBigEndian(vec) ==
    [j \in 1..(4 * Len(vec)) |-> ByteOf(vec[((j - 1) \div 4) + 1], 3 - ((j - 1) % 4))]

floatsToBlob(vec) ==
    [j \in 1..(4 * Len(vec)) |-> ByteOf(vec[((j - 1) \div 4) + 1], (j - 1) % 4)]

\* nil (here <<>>) for a blob whose length is no multiple of 4.  A bit
\* pattern with the top bit set is the negative number of the same 32 bits
blobToFloats(b) ==
    IF Len(b) % 4 # 0 THEN <<>>
    ELSE [i \in 1..(Len(b) \div 4) |->
            b[4 * (i - 1) + 1] + b[4 * (i - 1) + 2] * 256
            + b[4 * (i - 1) + 3] * 65536
            + (IF b[4 * (i - 1) + 4] >= 128 THEN b[4 * (i - 1) + 4] - 256
               ELSE b[4 * (i - 1) + 4]) * 16777216]

----------------------------------------------------------------------------
(* Cosine similarity.  The float64 result is kept exactly, as the number   *)
(* num / (sqrt(na) * sqrt(nb)); the 0 of a zero norm is 0 / (1 * 1).       *)

RECURSIVE DotUpTo(_, _, _)
DotUpTo(a, b, n) ==
    IF n = 0 THEN 0 ELSE DotUpTo(a, b, n - 1) + FloatVal[a[n]] * FloatVal[b[n]]

SimZero == [panic |-> FALSE, num |-> 0, na |-> 1, nb |-> 1]

\* faulty variant: the division is made whatever the norms are
cosineUnguarded(a, b) ==
    IF Len(a) > Len(b) THEN [panic |-> TRUE, num |-> 0, na |-> 1, nb |-> 1]
    ELSE [panic |-> FALSE, num |-> DotUpTo(a, b, Len(a)),
          na |-> DotUpTo(a, a, Len(a)), nb |-> DotUpTo(b, b, Len(a))]

\* panic is the index-out-of-range panic of b[i] when a is longer than b
cosine(a, b) ==
    IF Len(a) > Len(b) THEN [panic |-> TRUE, num |-> 0, na |-> 1, nb |-> 1]
    ELSE LET dot == DotUpTo(a, b, Len(a))
             na  == DotUpTo(a, a, Len(a))
             nb  == DotUpTo(b, b, Len(a))
         IN  IF na = 0 \/ nb = 0 THEN SimZero
             ELSE [panic |-> FALSE, num |-> dot, na |-> na, nb |-> nb]

\* x <= y for two cosine values (numerators are >= 0: the floats are)
SimLeq(x, y) == x.num * x.num * (y.na * y.nb) <= y.num * y.num * (x.na * x.nb)

\* the largest r in lo..hi with r * r <= n (lo * lo <= n is given)
RECURSIVE IsqrtIn(_, _, _)
IsqrtIn(n, lo, hi) ==
    IF lo >= hi THEN lo
    ELSE LET mid == (lo + hi + 1) \div 2
         IN  IF mid * mid <= n THEN IsqrtIn(n, mid, hi) ELSE IsqrtIn(n, lo, mid - 1)

\* fmt "%.3f" of a cosine value, in thousandths: round(1000 * x), computed as
\* (floor(2000 * x) + 1) div 2 with floor(2000 * x) = isqrt(floor(4000000 * p / d))
Milli(x) ==
    LET p  == x.num * x.num
        d  == x.na * x.nb
        t1 == (2000 * (p % d)) \div d
        r1 == (2000 * (p % d)) % d
        f  == 4000000 * (p \div d) + 2000 * t1 + (2000 * r1) \div d
    IN  (IsqrtIn(f, 0, 2000) + 1) \div 2

----------------------------------------------------------------------------
(* Inputs of the model *)

\* a text of n words "w" separated by single spaces
TextOfWords(n) == [i \in 1..(IF n = 0 THEN 0 ELSE 2 * n - 1) |->
                      IF i % 2 = 1 THEN "w" ELSE " "]

\* URLs are sequences of tokens (see below)
Urls == {<<"u1">>, <<"u2">>}
Titles == {"t"}

\* The state names a content by its number of words: content n stands for
\* the text ContentText(n), so that a row does not carry thousands of characters.
ContentText(n) == TextOfWords(n)

\* contents of the store specification: 0 and 1700 words
StoreContents == {0, 1700}

\* contents of the query specification: one word
QueryContents == {1}

\* contents of the ingestion specification: sections of 5 and 11 characters,
\* bodies of 199 and 201 characters
IngestContents == {3, 6, 100, 101}

AllContents == StoreContents \cup QueryContents \cup IngestContents

\* vectors the embedding provider returns in the store specification
StoreVecs == {<<F32(1), F32(0)>>}

\* vectors the embedding provider returns for chunks in the query specification
VecSet == {<<F32(1), F32(0)>>, <<F32(20), F32(1)>>, <<F32(19), F32(1)>>,
           <<F32(0), F32(0)>>}

\* query vectors, and the values of k, of the query specification
QueryVecs == {<<F32(1), F32(0)>>, <<F32(0), F32(1)>>}

Ks == {-1, 0, 1, AnswerK}

\* query texts
Queries == {<<>>, <<"\t", "\n">>, <<" ", "a">>}

\* splitIntoChunks(content, 800) of the contents above, computed once
ChunkTable == {<<c, splitIntoChunks(ContentText(c), ChunkWindow)>> : c \in AllContents}

\* splitIntoChunks(content, 800) as upsertDocument calls it
ContentChunks(content) ==
    IF \E p \in ChunkTable : p[1] = content
    THEN (CHOOSE p \in ChunkTable : p[1] = content)[2]
    ELSE splitIntoChunks(ContentText(content), ChunkWindow)

----------------------------------------------------------------------------
(* The store *)

\* faulty variant: count > 1 in the place of count > 0
documentExistsTwice(docs, u, ok) ==
    [exists |-> ok /\ Cardinality({d \in docs : d.url = u}) > 1, err |-> ~ok]

\* SELECT COUNT(1) FROM documents WHERE url = ?  (ok = FALSE: the query fails,
\* Scan leaves count at 0 and the error is returned beside count > 0)
documentExists(docs, u, ok) ==
    [exists |-> ok /\ \E d \in docs : d.url = u, err |-> ~ok]

\* What the environment does to one chunk of an upsert: the embedding call
\* fails, or it returns vec and the INSERT into embeddings succeeds or fails.
StepOutcomes(Vs) ==
    {[emb |-> "err"]} \cup [emb : {"ok"}, vec : Vs, store : {"ok", "err"}]

OkOutcomes(Vs) == [emb : {"ok"}, vec : Vs, store : {"ok"}]

\* the scripts for n chunks: n successes, or some successes and then a failure
Scripts(n, Vs) ==
    [1..n -> OkOutcomes(Vs)] \cup
    UNION {{Append(pre, f) : pre \in [1..k -> OkOutcomes(Vs)],
                             f \in StepOutcomes(Vs) \ OkOutcomes(Vs)} : k \in 0..(n - 1)}

\* the vector as the backend stores it
StoredVector(be, emb) == IF be = "postgres" THEN emb ELSE floatsToBlob(emb)

\* faulty variant: the position is written 1-based
EmbeddingRowOneBased(be, id, i, ch, emb) ==
    [document_id |-> id, position |-> i + 1, vector |-> StoredVector(be, emb),
     snippet |-> SubSeq(ch, 1, min(SnippetLen, Len(ch)))]

\* the row INSERTed for chunk i (0-based) of document id
EmbeddingRow(be, id, i, ch, emb) ==
    [document_id |-> id, position |-> i, vector |-> StoredVector(be, emb),
     snippet |-> SubSeq(ch, 1, min(SnippetLen, Len(ch)))]

\* the chunk loop of upsertDocument from chunk i (1-based) on; the VECTOR(dim)
\* column of the postgres backend refuses a vector of another dimension
RECURSIVE upsertLoop(_, _, _, _, _, _, _)
upsertLoop(be, id, chs, i, script, embs, calls) ==
    IF i > Len(chs) THEN [embeddings |-> embs, embedCalls |-> calls, err |-> FALSE]
    ELSE LET o == script[i]
         IN  IF o.emb = "err"
             THEN [embeddings |-> embs, embedCalls |-> calls + 1, err |-> TRUE]
             ELSE IF o.store = "err" \/ (be = "postgres" /\ Len(o.vec) # embeddingDim)
             THEN [embeddings |-> embs, embedCalls |-> calls + 1, err |-> TRUE]
             ELSE upsertLoop(be, id, chs, i + 1, script,
                      Append(embs, EmbeddingRow(be, id, i - 1, chs[i], o.vec)),
                      calls + 1)

\* faulty variant: the INSERTs of a failed call are rolled back
upsertDocumentAtomic(be, docs, embs, nid, title, docURL, content, docOk, script) ==
    LET r == upsertLoop(be, nid, ContentChunks(content), 1, script, embs, 0)
    IN  IF ~docOk
        THEN [documents |-> docs, embeddings |-> embs, nextId |-> nid,
              err |-> TRUE, embedCalls |-> 0, id |-> 0]
        ELSE IF r.err
        THEN [documents |-> docs, embeddings |-> embs, nextId |-> nid + 1,
              err |-> TRUE, embedCalls |-> r.embedCalls, id |-> nid]
        ELSE [documents |-> docs \cup {[id |-> nid, title |-> title,
                                        url |-> docURL, content |-> content]},
              embeddings |-> r.embeddings, nextId |-> nid + 1,
              err |-> FALSE, embedCalls |-> r.embedCalls, id |-> nid]

\* upsertDocument: INSERT the document row (docOk = FALSE: the INSERT fails),
\* then embed and INSERT every chunk; nothing is rolled back on failure
upsertDocument(be, docs, embs, nid, title, docURL, content, docOk, script) ==
    LET chs == ContentChunks(content)
    IN  IF ~docOk
        THEN [documents |-> docs, embeddings |-> embs, nextId |-> nid,
              err |-> TRUE, embedCalls |-> 0, id |-> 0]
        ELSE LET r == upsertLoop(be, nid, chs, 1, script, embs, 0)
             IN  [documents |-> docs \cup {[id |-> nid, title |-> title,
                                            url |-> docURL, content |-> content]},
                  embeddings |-> r.embeddings, nextId |-> nid + 1,
                  err |-> r.err, embedCalls |-> r.embedCalls, id |-> nid]

\* DELETE FROM embeddings WHERE document_id = ? (for each id of ids)
RECURSIVE DeleteEmbeddings(_, _)
DeleteEmbeddings(embs, ids) ==
    IF embs = <<>> THEN <<>>
    ELSE IF Head(embs).document_id \in ids
         THEN DeleteEmbeddings(Tail(embs), ids)
         ELSE <<Head(embs)>> \o DeleteEmbeddings(Tail(embs), ids)

\* faulty variant: a row counts as its own duplicate (d2.id <= d.id)
DuplicateIdsWithSelf(docs) ==
    {d.id : d \in {x \in docs : \E d2 \in docs : d2.url = x.url /\ d2.id <= x.id}}

\* faulty variant: the comparison is turned round, so the newest row of a URL is kept
DuplicateIdsKeepNewest(docs) ==
    {d.id : d \in {x \in docs : \E d2 \in docs : d2.url = x.url /\ d2.id > x.id}}

\* SELECT id FROM documents d WHERE EXISTS (... d2.url = d.url AND d2.id < d.id)
DuplicateIds(docs) ==
    {d.id : d \in {x \in docs : \E d2 \in docs : d2.url = x.url /\ d2.id < x.id}}

\* the orders in which the query can return the ids of S
Orderings(S) ==
    {q \in [1..Cardinality(S) -> S] : \A i, j \in 1..Cardinality(S) : i # j => q[i] # q[j]}

\* the storage calls of Deduplicate that can fail: the SELECT, or the DELETE
\* FROM embeddings / DELETE FROM documents of the j-th duplicate id
DedupFailures(n) ==
    {[at |-> "none", j |-> 0], [at |-> "query", j |-> 0]} \cup
    [at : {"embeddings", "documents"}, j : 1..n]

\* faulty variant: the document row is deleted before its chunk rows
RECURSIVE dedupLoopDocumentFirst(_, _, _, _, _, _)
dedupLoopDocumentFirst(docs, embs, dupIDs, j, fail, removed) ==
    IF j > Len(dupIDs)
    THEN [documents |-> docs, embeddings |-> embs, removed |-> removed, err |-> FALSE]
    ELSE IF fail.at = "documents" /\ fail.j = j
    THEN [documents |-> docs, embeddings |-> embs, removed |-> removed, err |-> TRUE]
    ELSE LET hit == {d \in docs : d.id = dupIDs[j]}
         IN  IF fail.at = "embeddings" /\ fail.j = j
             THEN [documents |-> docs \ hit, embeddings |-> embs,
                   removed |-> removed + Cardinality(hit), err |-> TRUE]
             ELSE dedupLoopDocumentFirst(docs \ hit,
                                         DeleteEmbeddings(embs, {dupIDs[j]}),
                                         dupIDs, j + 1, fail,
                                         removed + Cardinality(hit))

\* the loop over dupIDs from the j-th id on
RECURSIVE dedupLoop(_, _, _, _, _, _)
dedupLoop(docs, embs, dupIDs, j, fail, removed) ==
    IF j > Len(dupIDs)
    THEN [documents |-> docs, embeddings |-> embs, removed |-> removed, err |-> FALSE]
    ELSE IF fail.at = "embeddings" /\ fail.j = j
    THEN [documents |-> docs, embeddings |-> embs, removed |-> removed, err |-> TRUE]
    ELSE LET embs2 == DeleteEmbeddings(embs, {dupIDs[j]})
         IN  IF fail.at = "documents" /\ fail.j = j
             THEN [documents |-> docs, embeddings |-> embs2, removed |-> removed,
                   err |-> TRUE]
             ELSE LET hit == {d \in docs : d.id = dupIDs[j]}
                  IN  dedupLoop(docs \ hit, embs2, dupIDs, j + 1, fail,
                                removed + Cardinality(hit))

Deduplicate(docs, embs, dupIDs, fail) ==
    IF fail.at = "query"
    THEN [documents |-> docs, embeddings |-> embs, removed |-> 0, err |-> TRUE]
    ELSE dedupLoop(docs, embs, dupIDs, 1, fail, 0)

\* faulty variant: only the documents are deleted
CleanDocumentsOnly(docs, embs, fail) ==
    IF fail # "none"
    THEN [documents |-> docs, embeddings |-> embs, removed |-> 0, err |-> TRUE]
    ELSE [documents |-> {}, embeddings |-> embs, removed |-> Cardinality(docs),
          err |-> FALSE]

\* Clean: DELETE FROM embeddings, then DELETE FROM documents; fail names the
\* statement that fails ("none": neither).  An error returns 0.
Clean(docs, embs, fail) ==
    IF fail = "embeddings"
    THEN [documents |-> docs, embeddings |-> embs, removed |-> 0, err |-> TRUE]
    ELSE IF fail = "documents"
    THEN [documents |-> docs, embeddings |-> <<>>, removed |-> 0, err |-> TRUE]
    ELSE [documents |-> {}, embeddings |-> <<>>, removed |-> Cardinality(docs),
          err |-> FALSE]

----------------------------------------------------------------------------
(* Search *)

\* FROM embeddings e JOIN documents d ON d.id = e.document_id, in the order of
\* the embeddings rows: each row paired with its document
RECURSIVE JoinRows(_, _)
JoinRows(docs, embs) ==
    IF embs = <<>> THEN <<>>
    ELSE LET e == Head(embs)
             ds == {d \in docs : d.id = e.document_id}
         IN  (IF ds = {} THEN <<>> ELSE <<[d |-> CHOOSE d \in ds : TRUE, e |-> e]>>)
             \o JoinRows(docs, Tail(embs))

\* the score topK reads back from a snippet that ends in " (sim=%.3f)", in
\* thousandths; -1 (here -1000) when the snippet carries no score
extractScore(snippet) == IF "sim" \in DOMAIN snippet THEN snippet.sim ELSE -1000

RemoveAt(items, i) == SubSeq(items, 1, i - 1) \o SubSeq(items, i + 1, Len(items))

\* the inner loop of topK: the first index whose score is the largest
BestIndex(items) ==
    CHOOSE b \in 1..Len(items) :
        /\ \A j \in 1..Len(items) : extractScore(items[j].Snippet) <= extractScore(items[b].Snippet)
        /\ \A j \in 1..(b - 1) : extractScore(items[j].Snippet) < extractScore(items[b].Snippet)

RECURSIVE topKLoop(_, _, _, _)
topKLoop(items, k, i, res) ==
    IF ~(i < k /\ Len(items) > 0) THEN res
    ELSE LET best == BestIndex(items)
         IN  topKLoop(RemoveAt(items, best), k, i + 1, Append(res, items[best]))

\* topK; make([]docChunk, 0, k) panics for a negative k
topK(items, k) ==
    IF k < 0 THEN [panic |-> TRUE, items |-> <<>>]
    ELSE [panic |-> FALSE, items |-> topKLoop(items, k, 0, <<>>)]

\* the rows.Next loop of the sqlite path; it panics when cosine does
RECURSIVE scanRows(_, _)
scanRows(rows, queryVec) ==
    IF rows = <<>> THEN [panic |-> FALSE, items |-> <<>>]
    ELSE LET r    == Head(rows)
             vec  == blobToFloats(r.e.vector)
             sim  == cosine(vec, queryVec)
             rest == scanRows(Tail(rows), queryVec)
         IN  IF sim.panic \/ rest.panic THEN [panic |-> TRUE, items |-> <<>>]
             ELSE [panic |-> FALSE,
                   items |-> <<[ID |-> r.d.id, Title |-> r.d.title, URL |-> r.d.url,
                                Snippet |-> [text |-> r.e.snippet, sim |-> Milli(sim)],
                                Vector |-> vec]>> \o rest.items]

\* ORDER BY e.vector <=> $1: the rows by increasing cosine distance (decreasing
\* cosine similarity), rows at the same distance in row order
RECURSIVE pgOrder(_, _)
pgOrder(rows, queryVec) ==
    IF rows = <<>> THEN <<>>
    ELSE LET b == CHOOSE b \in 1..Len(rows) :
                    /\ \A j \in 1..Len(rows) :
                          SimLeq(cosine(rows[j].e.vector, queryVec),
                                 cosine(rows[b].e.vector, queryVec))
                    /\ \A j \in 1..(b - 1) :
                          ~SimLeq(cosine(rows[b].e.vector, queryVec),
                                  cosine(rows[j].e.vector, queryVec))
         IN  <<rows[b]>> \o pgOrder(RemoveAt(rows, b), queryVec)

\* search: ok = FALSE is a failing storage query.  The postgres statement
\* fails for a negative LIMIT and for a query vector of another dimension.
search(be, docs, embs, queryVec, k, ok) ==
    IF ~ok THEN [status |-> "err", results |-> <<>>]
    ELSE IF be = "postgres"
    THEN IF k < 0 \/ Len(queryVec) # embeddingDim
         THEN [status |-> "err", results |-> <<>>]
         ELSE LET rows == pgOrder(JoinRows(docs, embs), queryVec)
              IN  [status |-> "ok",
                   results |-> [i \in 1..min(k, Len(rows)) |->
                                   [ID |-> rows[i].d.id, Title |-> rows[i].d.title,
                                    URL |-> rows[i].d.url,
                                    Snippet |-> [text |-> rows[i].e.snippet],
                                    Vector |-> <<>>]]]
    ELSE LET scan == scanRows(JoinRows(docs, embs), queryVec)
         IN  IF scan.panic THEN [status |-> "panic", results |-> <<>>]
             ELSE IF Len(scan.items) > k
             THEN LET top == topK(scan.items, k)
                  IN  IF top.panic THEN [status |-> "panic", results |-> <<>>]
                      ELSE [status |-> "ok", results |-> top.items]
             ELSE [status |-> "ok", results |-> scan.items]

----------------------------------------------------------------------------
(* Answer *)

\* faulty variant: the query is compared with "" without trimming it
IsEmptyQueryNoTrim(query) == query = <<>>

\* strings.TrimSpace(query) == ""
IsEmptyQuery(query) == TrimSpace(query) = <<>>

\* faulty variant: the error of the embedding call is not looked at
EmbedFailedIgnored(emb) == FALSE

\* emb, err := e.embed(ctx, query); if err != nil.  A failed embedding call
\* gives the nil vector.
EmbedFailed(emb) == emb = <<>>

\* one citation per retrieved chunk
Citations(docs) ==
    [i \in 1..Len(docs) |->
        [Title |-> docs[i].Title, URL |-> docs[i].URL, Span |-> docs[i].Snippet]]

\* Answer.  emb is what the embedding call gives ("err", or a vector),
\* searchOk whether the storage query works, completion what the completion
\* call gives ("err" or "ok").  The prompt text is not modelled.
Answer(be, docs, embs, query, emb, searchOk, completion) ==
    LET none == [err |-> TRUE, panic |-> FALSE, answered |-> FALSE,
                 citations |-> <<>>, embedCalls |-> 0, searchCalls |-> 0,
                 completeCalls |-> 0]
    IN  IF IsEmptyQuery(query) THEN none
        ELSE IF EmbedFailed(emb) THEN [none EXCEPT !.embedCalls = 1]
        ELSE LET found == search(be, docs, embs, emb, AnswerK, searchOk)
             IN  IF found.status = "panic"
                 THEN [none EXCEPT !.err = FALSE, !.panic = TRUE,
                                   !.embedCalls = 1, !.searchCalls = 1]
                 ELSE IF found.status = "err"
                 THEN [none EXCEPT !.embedCalls = 1, !.searchCalls = 1]
                 ELSE IF completion = "err"
                 THEN [none EXCEPT !.embedCalls = 1, !.searchCalls = 1,
                                   !.completeCalls = 1]
                 ELSE [err |-> FALSE, panic |-> FALSE, answered |-> TRUE,
                       citations |-> Citations(found.results),
                       embedCalls |-> 1, searchCalls |-> 1, completeCalls |-> 1]

----------------------------------------------------------------------------
(* URLs and pages.  A URL is a sequence of tokens: the scheme, the host,    *)
(* the segments of the path and, if there is one, "#" and the fragment.     *)
(* A page is what goquery sees of it: the content container, the headings   *)
(* that carry an id attribute with the text of the paragraphs after them,   *)
(* the text of the container and the href attributes of its anchors.        *)

\* the substrings of a token that the code looks for
TokenHas(tok, s) ==
    \/ tok = s
    \/ <<tok, s>> \in {<<"https://", "http">>, <<"?list=", "list=">>,
                       <<"/watch?v=", "/watch?">>, <<"/watch?v=", "v=">>,
                       <<"kiali-http-demo", "http">>}

\* strings.Contains, pat being a sequence of tokens
Contains(u, pat) ==
    \E i \in 1..(Len(u) - Len(pat) + 1) :
        \A j \in 1..Len(pat) : TokenHas(u[i + j - 1], pat[j])

\* url.Parse fails on a malformed escape
ParseOk(u) == \A i \in 1..Len(u) : u[i] # "%zz"

IsAbs(u) == Len(u) >= 1 /\ u[1] = "https://"

Host(u) == IF IsAbs(u) /\ Len(u) >= 2 THEN u[2] ELSE ""

FragmentAt(u) ==
    IF \E i \in 1..Len(u) : u[i] = "#"
    THEN CHOOSE i \in 1..Len(u) : u[i] = "#" /\ \A j \in 1..(i - 1) : u[j] # "#"
    ELSE Len(u) + 1

Path(u) == IF IsAbs(u) THEN SubSeq(u, 3, FragmentAt(u) - 1)
           ELSE SubSeq(u, 1, FragmentAt(u) - 1)

\* strings.ToLower on a token
ToLower(tok) == IF tok = ".PNG" THEN ".png" ELSE tok

AssetSuffixes == {".png", ".jpg", ".jpeg", ".gif", ".svg", ".ico", ".pdf", ".zip"}

shouldCrawl(u) ==
    IF ~ParseOk(u) THEN FALSE
    ELSE IF Host(u) = "" THEN FALSE
    ELSE IF ~Contains(<<Host(u)>>, <<"kiali.io">>) THEN FALSE
    ELSE IF ~Contains(Path(u), <<"/docs/">>) THEN FALSE
    ELSE LET lower == [i \in 1..Len(Path(u)) |-> ToLower(Path(u)[i])]
         IN  IF lower # <<>> /\ lower[Len(lower)] \in AssetSuffixes THEN FALSE
             ELSE IF Contains(lower, <<"/tag/">>) \/ Contains(lower, <<"/category/">>)
             THEN FALSE
             ELSE TRUE

\* resolveURL: an absolute href stands for itself; a href that starts at the
\* root replaces the path of the base; any other one replaces its last segment
resolveURL(baseURL, href) ==
    IF ~ParseOk(href) THEN href
    ELSE IF IsAbs(href) THEN href
    ELSE IF href # <<>> /\ href[1] \in {"/docs/", "/blog/", "/watch?v=", "/embed/"}
    THEN SubSeq(baseURL, 1, 2) \o href
    ELSE SubSeq(baseURL, 1, FragmentAt(baseURL) - 2) \o href

\* the links of the container of a page (.td-content, else main) that
\* shouldCrawl accepts
collectKialiLinks(page, curr) ==
    IF page.container \notin {"td-content", "main"} THEN <<>>
    ELSE LET kept == SelectSeq(page.links,
                        LAMBDA href : /\ href # <<>>
                                      /\ href[1] # "#"
                                      /\ href[1] \notin {"mailto:", "javascript:"}
                                      /\ shouldCrawl(resolveURL(curr, href)))
         IN  [i \in 1..Len(kept) |-> resolveURL(curr, kept[i])]

\* the sections of a page: one per heading with an id attribute and a title,
\* or, without such a heading, one with the text of the container
extractKialiSections(page, currURL) ==
    IF page.container # "none" /\ page.headings # <<>>
    THEN LET titled == SelectSeq(page.headings, LAMBDA h : h.title # "")
         IN  [i \in 1..Len(titled) |->
                 [Title |-> titled[i].title, Content |-> titled[i].content,
                  URL |-> IF titled[i].id # "" THEN currURL \o <<"#", titled[i].id>>
                          ELSE currURL]]
    ELSE <<[Title |-> page.title,
            Content |-> IF page.container = "none" THEN 0 ELSE page.text,
            URL |-> currURL]>>

isYouTubePlaylistURL(u) ==
    \/ Contains(u, <<"youtube.com", "/playlist">>)
    \/ (Contains(u, <<"list=">>) /\ Contains(u, <<"youtube.com">>))

\* the value of the query parameter list, "" without one
extractPlaylistID(u) ==
    IF ParseOk(u) /\ \E i \in 1..(Len(u) - 1) : u[i] = "?list="
    THEN u[(CHOOSE i \in 1..(Len(u) - 1) : u[i] = "?list=") + 1]
    ELSE ""

WatchURL(id) == <<"https://", "www.youtube.com", "/watch?v=", id>>

normalizeYouTubeWatchURL(src) ==
    IF ~ParseOk(src) THEN src
    ELSE IF Contains(Path(src), <<"/embed/">>)
    THEN WatchURL(Path(src)[Len(Path(src))])
    ELSE src

\* the first occurrences of the elements of s, in order
RECURSIVE DedupeSeq(_, _)
DedupeSeq(s, seen) ==
    IF s = <<>> THEN <<>>
    ELSE IF Head(s) \in seen THEN DedupeSeq(Tail(s), seen)
    ELSE <<Head(s)>> \o DedupeSeq(Tail(s), seen \cup {Head(s)})

\* faulty variant: the listing API is asked without a key
UseAPIWithoutKey(playlistURL, env) == extractPlaylistID(playlistURL) # ""

\* if listID != "" && apiKey != "": env.key tells whether YOUTUBE_API_KEY or
\* GOOGLE_API_KEY is set
UseAPI(playlistURL, env) == extractPlaylistID(playlistURL) # "" /\ env.key

\* expandPlaylist: the listing API when a key is configured and the URL names
\* a list (env.api: its outcome, all pages together), else, or when the API
\* gave nothing, the anchors of the playlist page (env.html: the fetch)
expandPlaylist(playlistURL, env) ==
    LET api == IF UseAPI(playlistURL, env) THEN 1 ELSE 0
    IN  IF UseAPI(playlistURL, env) /\ env.api.ok
           /\ SelectSeq(env.api.ids, LAMBDA id : id # "") # <<>>
        THEN [err |-> FALSE, apiCalls |-> api, htmlFetches |-> 0,
              videos |-> LET ids == SelectSeq(env.api.ids, LAMBDA id : id # "")
                         IN  [i \in 1..Len(ids) |-> WatchURL(ids[i])]]
        ELSE IF ~env.html.ok
        THEN [err |-> TRUE, apiCalls |-> api, htmlFetches |-> 1, videos |-> <<>>]
        ELSE LET hrefs == SelectSeq(env.html.hrefs,
                             LAMBDA h : Contains(h, <<"/watch?">>) /\ Contains(h, <<"v=">>))
                 urls  == [i \in 1..Len(hrefs) |->
                              normalizeYouTubeWatchURL(resolveURL(playlistURL, hrefs[i]))]
             IN  [err |-> FALSE, apiCalls |-> api, htmlFetches |-> 1,
                  videos |-> DedupeSeq(urls, {})]

\* strings.TrimSpace on a part of the comma-separated input: the blanks
\* around the URL are tokens " "
RECURSIVE TrimPart(_)
TrimPart(p) ==
    IF p # <<>> /\ p[1] = " " THEN TrimPart(Tail(p))
    ELSE IF p # <<>> /\ p[Len(p)] = " " THEN TrimPart(SubSeq(p, 1, Len(p) - 1))
    ELSE p

\* the URLs IngestYouTube works through: the non-empty trimmed parts of the
\* input, playlists expanded (a failed expansion gives nothing), deduplicated
RECURSIVE ExpandAll(_, _)
ExpandAll(urls, env) ==
    IF urls = <<>> THEN <<>>
    ELSE LET u == Head(urls)
             r == expandPlaylist(u, env)
         IN  (IF isYouTubePlaylistURL(u)
              THEN (IF r.err THEN <<>> ELSE r.videos)
              ELSE <<u>>) \o ExpandAll(Tail(urls), env)

\* expanded: the input URLs with every playlist replaced by its items
MergedURLs(parts, env) ==
    LET trimmed == [i \in 1..Len(parts) |-> TrimPart(parts[i])]
        urls    == SelectSeq(trimmed, LAMBDA s : s # <<>>)
    IN  ExpandAll(urls, env)

\* faulty variant: the merged list is ingested as it is
FinalURLsNoDedupe(parts, env) == MergedURLs(parts, env)

\* final: the first occurrences of expanded
FinalURLs(parts, env) == DedupeSeq(MergedURLs(parts, env), {})

----------------------------------------------------------------------------
(* Ingestion: IngestKialiDocs and IngestYouTube, one step per iteration of  *)
(* their loops.  ingest holds the locals of the running call.               *)

A == <<"https://", "kiali.io", "/docs/", "a">>
B == <<"https://", "kiali.io", "/docs/", "b">>
Off == <<"https://", "example.com", "/docs/", "x">>
\* a URL of another host with the name of the domain in its path
OffPath == <<"https://", "example.com", "/docs/", "kiali.io">>
Asset == <<"https://", "kiali.io", "/docs/", "logo", ".png">>
AssetUpper == <<"https://", "kiali.io", "/docs/", "logo", ".PNG">>
Tag == <<"https://", "kiali.io", "/docs/", "/tag/", "x">>
Blog == <<"https://", "kiali.io", "/blog/", "x">>

\* page A: a section of 11 characters, a heading without text, a section of
\* 5 characters;  page B: no heading with an id, 11 characters of text
PageA(container, links) ==
    [container |-> container, title |-> "A", text |-> 6,
     headings |-> <<[title |-> "Install", id |-> "s1", content |-> 6],
                    [title |-> "", id |-> "s0", content |-> 6],
                    [title |-> "Note", id |-> "s2", content |-> 3]>>,
     links |-> links]

PageB(container, links) ==
    [container |-> container, title |-> "B", text |-> 6, headings |-> <<>>,
     links |-> links]

\* the sites crawled: A and B linking to each other; A with every kind of
\* link; A alone; B in a container whose links are not collected; A without
\* any container
Sites ==
    {(A :> PageA("td-content", <<<<"b">>>>)) @@ (B :> PageB("main", <<<<"a">>>>)),
     (A :> PageA("td-content",
                 <<B, <<"/docs/", "b">>, Asset, <<"#", "s1">>, Off, A,
                   <<"mailto:", "x">>, <<>>, Tag, Blog, AssetUpper, <<"%zz">>>>))
        @@ (B :> PageB("td-content", <<A, B>>)),
     (A :> PageA("main", <<>>)),
     (A :> PageA("td-content", <<B>>)) @@ (B :> PageB("article", <<A>>)),
     (A :> [container |-> "none", title |-> "A", text |-> 6, headings |-> <<>>,
            links |-> <<B>>]),
     (OffPath :> PageA("main", <<>>))}

\* the base URLs given to IngestKialiDocs
Bases == {A, <<"/docs/", "a">>, Off, OffPath, <<"%zz">>}

V1 == <<"https://", "youtube.com", "/watch?v=", "x">>
Playlist == <<"https://", "youtube.com", "/playlist", "?list=", "p">>

\* inputs of IngestYouTube, as the parts between the commas
YtInputs ==
    {<<<<" ">> \o V1 \o <<" ">>, <<" ">>, V1>>, <<Playlist>>,
     <<<<"youtube">>>>}

\* references: the empty one, two names of a channel, a video
YtReferences ==
    {<<<<>>>>, <<<<"youtube">>>>, <<<<"kiali-http-demo">>>>, <<V1>>}

\* inputs that name a video twice and a playlist next to one of its videos
YtMergeInputs ==
    {<<<<" ">> \o V1 \o <<" ">>, <<" ">>, V1>>, <<Playlist, V1>>}

\* what the listing API and the playlist page give
PlaylistEnvs ==
    {[key |-> FALSE, api |-> [ok |-> FALSE, ids |-> <<>>],
      html |-> [ok |-> FALSE, hrefs |-> <<>>]],
     [key |-> FALSE, api |-> [ok |-> FALSE, ids |-> <<>>],
      html |-> [ok |-> TRUE,
                hrefs |-> <<<<"/watch?v=", "x">>, V1, <<"/embed/", "y">>>>]],
     [key |-> TRUE, api |-> [ok |-> TRUE, ids |-> <<"x", "", "x">>],
      html |-> [ok |-> FALSE, hrefs |-> <<>>]],
     [key |-> TRUE, api |-> [ok |-> TRUE, ids |-> <<>>],
      html |-> [ok |-> TRUE, hrefs |-> <<V1>>]]}

\* bodies fetchRaw returns: 199 and 201 characters
YtBodies == {100, 101}

\* calls: the ingestion calls made so far; fetches: the URLs the running call
\* has fetched, in order; merged, checked, upserts (IngestYouTube, until it
\* returns): the list before its deduplication, the URLs given to
\* documentExists and those given to upsertDocument, in order; expired: the
\* deadline of the ctx of the running call has passed; embedOk, embedErr
\* (until the call returns): an embedding call of the running call has
\* succeeded, has failed; faulted: whether a fetch, a query, an embedding call
\* or an INSERT of any call so far has failed
IdleIngest ==
    [op |-> "none", pc |-> "idle", calls |-> 0, queue |-> <<>>, visited |-> {},
     curr |-> <<>>, pending |-> <<>>, links |-> <<>>, ingested |-> 0,
     skipped |-> 0, fetches |-> <<>>, faulted |-> FALSE,
     merged |-> <<>>, checked |-> <<>>, upserts |-> <<>>, expired |-> FALSE,
     embedOk |-> FALSE, embedErr |-> FALSE]

IngestIdle == web = <<>> /\ ingest = IdleIngest

\* the expandPlaylist harness at rest
IdlePlaylist ==
    [url |-> <<>>, env |-> [key |-> FALSE, api |-> [ok |-> FALSE, ids |-> <<>>],
                            html |-> [ok |-> FALSE, hrefs |-> <<>>]],
     called |-> FALSE, err |-> FALSE, apiCalls |-> 0, htmlFetches |-> 0,
     videos |-> <<>>]

\* the requests a server handles at the same time
Workers == {1, 2}

\* a worker between two calls; after a call: its name and its outcome.
\* overlap: another call ran while this one did; sawAbsent: documentExists
\* answered false without error; raced: a row of the URL was there when the
\* document row was inserted
IdleProc ==
    [op |-> "none", pc |-> "idle", url |-> <<>>, id |-> 0, i |-> 0,
     dupIDs |-> <<>>, err |-> FALSE, removed |-> 0, overlap |-> FALSE,
     sawAbsent |-> FALSE, raced |-> FALSE]

ProcsIdle == procs = [w \in Workers |-> IdleProc] /\ started = 0

\* X-API-Key and Authorization of a request without these headers
NoAuthorization == [scheme |-> "", text |-> <<>>, garbage |-> FALSE]

NoRequest == [path |-> "", apiKey |-> <<>>, authorization |-> NoAuthorization]

\* a server without API_KEY, BASIC_AUTH_USER and BASIC_AUTH_PASS that has
\* served no request
IdleAuth ==
    [env |-> [API_KEY |-> <<>>, BASIC_AUTH_USER |-> <<>>, BASIC_AUTH_PASS |-> <<>>],
     served |-> FALSE, req |-> NoRequest, reached |-> FALSE, status |-> 0]

AuthIdle == auth = IdleAuth

\* op: the helpers applied; a, b: vectors; blob: a byte string; sim: the
\* result of cosine; out: the result of blobToFloats
IdleCalc == [op |-> "none", a |-> <<>>, b |-> <<>>, blob |-> <<>>,
             sim |-> SimZero, out |-> <<>>]

CalcIdle == calc = IdleCalc

AuxIdle == playlist = IdlePlaylist /\ ProcsIdle /\ AuthIdle /\ CalcIdle

\* what a call that takes the ctx can give: only failure once the deadline of
\* the ctx has passed (QueryRowContext, ExecContext, NewRequestWithContext)
CtxOutcomes(expired) == IF expired THEN {FALSE} ELSE BOOLEAN

\* faulty variant: the visited set is never consulted
IsVisitedNever(visited, u) == FALSE

\* visited[u]
IsVisited(visited, u) == u \in visited

\* faulty variant: the existence check always answers no
SectionExistsNever(docs, u, ok) == FALSE

\* faulty variant: a failed query counts as a document found
SectionExistsOrError(docs, u, ok) == ~ok \/ documentExists(docs, u, ok).exists

\* exists, _ := e.documentExists(ctx, url)
SectionExists(docs, u, ok) == documentExists(docs, u, ok).exists

NoChange(docs, embs, nid) ==
    [documents |-> docs, embeddings |-> embs, nextId |-> nid, embedCalls |-> 0,
     err |-> FALSE, fault |-> FALSE, ingested |-> 0, skipped |-> 0,
     fetched |-> FALSE, upserted |-> FALSE]

\* the body of the section loop of IngestKialiDocs for one section
ingestSection(be, docs, embs, nid, sec, existsOk, docOk, script) ==
    IF Len(TrimSpace(ContentText(sec.Content))) < MinSectionLen
    THEN NoChange(docs, embs, nid)
    ELSE IF SectionExists(docs, sec.URL, existsOk)
    THEN [NoChange(docs, embs, nid) EXCEPT !.skipped = 1]
    ELSE LET r == upsertDocument(be, docs, embs, nid, sec.Title, sec.URL,
                                 sec.Content, docOk, script)
         IN  [documents |-> r.documents, embeddings |-> r.embeddings,
              nextId |-> r.nextId, embedCalls |-> r.embedCalls, err |-> r.err,
              fault |-> ~existsOk, ingested |-> IF r.err THEN 0 ELSE 1,
              skipped |-> 0, fetched |-> TRUE, upserted |-> TRUE]

\* faulty variant: the length of the body is not looked at
BodyUnusableOnError(body) == body < 0

\* if err != nil || len(body) < 200;  body < 0: fetchRaw fails
BodyUnusable(body) == body < 0 \/ Len(ContentText(body)) < MinBodyLen

\* the body of the item loop of IngestYouTube for one URL
ingestItem(be, docs, embs, nid, u, existsOk, body, docOk, script) ==
    IF SectionExists(docs, u, existsOk)
    THEN [NoChange(docs, embs, nid) EXCEPT !.skipped = 1]
    ELSE IF BodyUnusable(body)
    THEN [NoChange(docs, embs, nid) EXCEPT !.fault = ~existsOk \/ body < 0,
                                           !.fetched = TRUE]
    ELSE LET r == upsertDocument(be, docs, embs, nid, "YouTube Video", u, body,
                                 docOk, script)
         IN  [documents |-> r.documents, embeddings |-> r.embeddings,
              nextId |-> r.nextId, embedCalls |-> r.embedCalls, err |-> r.err,
              fault |-> ~existsOk, ingested |-> IF r.err THEN 0 ELSE 1,
              skipped |-> 0, fetched |-> TRUE, upserted |-> TRUE]

\* whether upsertDocument ran (r.upserted) and an embedding call of its
\* script succeeded, failed
EmbedSucceeded(r, script) ==
    r.upserted /\ \E i \in 1..Len(script) : script[i].emb = "ok"

EmbedFailedIn(r, script) ==
    r.upserted /\ \E i \in 1..Len(script) : script[i].emb = "err"

\* url.Parse(base), the scheme and the host defaulted
NormalizeBase(base) ==
    IF IsAbs(base) THEN base ELSE <<"https://", "kiali.io">> \o base

----------------------------------------------------------------------------
(* The handler calls as actions.  last records the call that was just made. *)

\* op: the handler; err, panic: how it ended; fault: whether a storage call of
\* it was made to fail; n: the number it returned (or the id it inserted);
\* embedCalls, searchCalls, completeCalls: the calls it made; query, k, out:
\* the arguments and the result of a search or an answer
NoCall == [op |-> "none", err |-> FALSE, panic |-> FALSE, fault |-> FALSE, n |-> 0,
           embedCalls |-> 0, searchCalls |-> 0, completeCalls |-> 0,
           url |-> <<>>, query |-> <<>>, k |-> 0, out |-> <<>>,
           embedErr |-> FALSE, answered |-> FALSE, body |-> -2]

ChunkIdle == /\ text = <<>>
             /\ wordsPerChunk = 0
             /\ chunks = [done |-> FALSE, out |-> <<>>]

InitStore ==
    /\ backend \in {"sqlite", "postgres"}
    /\ documents = {}
    /\ embeddings = <<>>
    /\ nextId = 1
    /\ last = NoCall

\* one call of upsertDocument with a url of Us, a content of Cs and provider
\* vectors of Vs; with traced, the call record tells whether it was the
\* embedding call that failed
UpsertTraced(Us, Cs, Vs, traced) ==
    /\ nextId <= MaxDocs
    /\ \E title \in Titles, u \in Us, c \in Cs, docOk \in BOOLEAN :
         \E script \in (IF docOk THEN Scripts(Len(ContentChunks(c)), Vs) ELSE {<<>>}) :
            LET r == upsertDocument(backend, documents, embeddings, nextId,
                                    title, u, c, docOk, script)
            IN  /\ documents' = r.documents
                /\ embeddings' = r.embeddings
                /\ nextId' = r.nextId
                /\ last' = [NoCall EXCEPT !.op = "upsertDocument", !.err = r.err,
                                          !.n = r.id, !.embedCalls = r.embedCalls,
                                          !.url = u,
                                          !.embedErr =
                                              /\ traced
                                              /\ \E i \in 1..Len(script) :
                                                    script[i].emb = "err"]
    /\ UNCHANGED <<backend, chunkVars, ingestVars, auxVars>>

UpsertCall(Us, Cs, Vs) == UpsertTraced(Us, Cs, Vs, FALSE)

DoUpsert == UpsertCall(Urls, StoreContents, StoreVecs)

DoDeduplicate ==
    /\ \E dupIDs \in Orderings(DuplicateIds(documents)) :
         \E fail \in DedupFailures(Len(dupIDs)) :
            LET r == Deduplicate(documents, embeddings, dupIDs, fail)
            IN  /\ documents' = r.documents
                /\ embeddings' = r.embeddings
                /\ last' = [NoCall EXCEPT !.op = "Deduplicate", !.err = r.err,
                                          !.n = r.removed,
                                          !.fault = (fail.at # "none")]
    /\ UNCHANGED <<backend, nextId, chunkVars, ingestVars, auxVars>>

DoClean ==
    /\ \E fail \in {"none", "embeddings", "documents"} :
         LET r == Clean(documents, embeddings, fail)
         IN  /\ documents' = r.documents
             /\ embeddings' = r.embeddings
             /\ last' = [NoCall EXCEPT !.op = "Clean", !.err = r.err,
                                       !.n = r.removed,
                                       !.fault = (fail # "none")]
    /\ UNCHANGED <<backend, nextId, chunkVars, ingestVars, auxVars>>

Init == InitStore /\ ChunkIdle /\ IngestIdle /\ AuxIdle

Next == DoUpsert \/ DoDeduplicate \/ DoClean

\* the store and its maintenance operations
Spec == Init /\ [][Next]_vars

----------------------------------------------------------------------------
(* The query specification: one-chunk documents with varied vectors, search *)
(* and Answer.                                                              *)

DoUpsertQuery ==
    /\ nextId <= MaxQueryDocs
    /\ UpsertCall({<<"u1">>}, QueryContents, VecSet)

DoSearch ==
    /\ \E queryVec \in QueryVecs, k \in Ks, ok \in BOOLEAN :
         LET r == search(backend, documents, embeddings, queryVec, k, ok)
         IN  last' = [NoCall EXCEPT !.op = "search", !.err = (r.status = "err"),
                                    !.panic = (r.status = "panic"), !.fault = ~ok,
                                    !.searchCalls = 1,
                                    !.query = queryVec, !.k = k, !.out = r.results]
    /\ UNCHANGED <<backend, documents, embeddings, nextId, chunkVars, ingestVars, auxVars>>

\* the embedding call of Answer fails (<<>>) or returns a query vector
DoAnswer ==
    /\ \E query \in Queries, emb \in {<<>>} \cup QueryVecs,
          searchOk \in BOOLEAN, completion \in {"ok", "err"} :
         LET r == Answer(backend, documents, embeddings, query, emb, searchOk,
                         completion)
         IN  last' = [NoCall EXCEPT !.op = "Answer", !.err = r.err,
                                    !.panic = r.panic, !.fault = ~searchOk,
                                    !.embedCalls = r.embedCalls,
                                    !.searchCalls = r.searchCalls,
                                    !.completeCalls = r.completeCalls,
                                    !.query = query, !.k = AnswerK,
                                    !.out = r.citations,
                                    !.embedErr = (emb = <<>>),
                                    !.answered = r.answered]
    /\ UNCHANGED <<backend, documents, embeddings, nextId, chunkVars, ingestVars, auxVars>>

NextQuery == DoUpsertQuery \/ DoSearch \/ DoAnswer

SpecQuery == Init /\ [][NextQuery]_vars

----------------------------------------------------------------------------
(* The chunker specification: splitIntoChunks applied to every text of at   *)
(* most MaxTextLen characters and every window size up to MaxWindow.        *)

Alphabet == {"a", "b", " ", "\t"}

Texts == UNION {[1..n -> Alphabet] : n \in 0..MaxTextLen}

InitChunk ==
    /\ text \in Texts
    /\ wordsPerChunk \in 1..MaxWindow
    /\ chunks = [done |-> FALSE, out |-> <<>>]
    /\ backend = "sqlite"
    /\ documents = {}
    /\ embeddings = <<>>
    /\ nextId = 1
    /\ last = NoCall
    /\ IngestIdle
    /\ AuxIdle

SplitCall ==
    /\ ~chunks.done
    /\ chunks' = [done |-> TRUE, out |-> splitIntoChunks(text, wordsPerChunk)]
    /\ UNCHANGED <<text, wordsPerChunk, storeVars, ingestVars, auxVars>>

NextChunk == SplitCall

SpecChunk == InitChunk /\ [][NextChunk]_vars

----------------------------------------------------------------------------
(* The ingestion specification *)

InitIngest ==
    /\ InitStore
    /\ ChunkIdle
    /\ web \in Sites
    /\ ingest = IdleIngest
    /\ AuxIdle

\* IngestKialiDocs up to the loop: the queue holds the base URL
DoIngestKialiDocs ==
    /\ ingest.pc \in {"idle", "done"}
    /\ ingest.calls < MaxIngests
    /\ \E base \in Bases :
         IF ~ParseOk(base)
         THEN /\ ingest' = [IdleIngest EXCEPT !.op = "IngestKialiDocs",
                                              !.pc = "done",
                                              !.faulted = ingest.faulted,
                                              !.calls = ingest.calls + 1]
              /\ last' = [NoCall EXCEPT !.op = "IngestKialiDocs", !.err = TRUE]
         ELSE /\ ingest' = [IdleIngest EXCEPT !.op = "IngestKialiDocs",
                                              !.pc = "loop",
                                              !.faulted = ingest.faulted,
                                              !.calls = ingest.calls + 1,
                                              !.queue = <<NormalizeBase(base)>>]
              /\ last' = [NoCall EXCEPT !.op = "start"]
    /\ UNCHANGED <<backend, documents, embeddings, nextId, web, chunkVars, auxVars>>

\* one iteration of the loop up to the sections: dequeue, visited check,
\* domain check, fetch (fetchOk = FALSE, or a URL the site has no page for:
\* the fetch fails)
CrawlDequeue ==
    /\ ingest.op = "IngestKialiDocs"
    /\ ingest.pc = "loop"
    /\ ingest.queue # <<>>
    /\ \E fetchOk \in BOOLEAN :
         LET curr == Head(ingest.queue)
             popped == [ingest EXCEPT !.queue = Tail(ingest.queue)]
             marked == [popped EXCEPT !.visited = @ \cup {curr}]
         IN  ingest' =
               IF IsVisited(ingest.visited, curr) THEN popped
               ELSE IF ~Contains(curr, <<"kiali.io">>) THEN marked
               ELSE IF ~(fetchOk /\ curr \in DOMAIN web)
               THEN [marked EXCEPT !.fetches = Append(@, curr), !.faulted = TRUE]
               ELSE [marked EXCEPT !.fetches = Append(@, curr),
                                   !.pc = "sections",
                                   !.curr = curr,
                                   !.pending = extractKialiSections(web[curr], curr),
                                   !.links = collectKialiLinks(web[curr], curr)]
    /\ last' = [NoCall EXCEPT !.op = "dequeue",
                              !.fault = ingest'.fetches # ingest.fetches
                                        /\ ingest'.pc = "loop"]
    /\ UNCHANGED <<backend, documents, embeddings, nextId, web, chunkVars, auxVars>>

\* one iteration of the section loop
CrawlSection ==
    /\ ingest.op = "IngestKialiDocs"
    /\ ingest.pc = "sections"
    /\ ingest.pending # <<>>
    /\ LET sec == Head(ingest.pending)
       IN  \E existsOk \in CtxOutcomes(ingest.expired),
              docOk \in CtxOutcomes(ingest.expired) :
             \E script \in (IF docOk
                            THEN Scripts(Len(ContentChunks(sec.Content)), StoreVecs)
                            ELSE {<<>>}) :
                LET r == ingestSection(backend, documents, embeddings, nextId,
                                       sec, existsOk, docOk, script)
                IN  /\ documents' = r.documents
                    /\ embeddings' = r.embeddings
                    /\ nextId' = r.nextId
                    /\ ingest' = [ingest EXCEPT
                                     !.pending = Tail(@),
                                     !.ingested = @ + r.ingested,
                                     !.skipped = @ + r.skipped,
                                     !.faulted = @ \/ r.fault \/ r.err,
                                     !.embedOk = @ \/ EmbedSucceeded(r, script),
                                     !.embedErr = @ \/ EmbedFailedIn(r, script)]
                    /\ last' = [NoCall EXCEPT !.op = "section", !.err = r.err,
                                              !.fault = ~existsOk,
                                              !.embedCalls = r.embedCalls,
                                              !.url = sec.URL]
    /\ UNCHANGED <<backend, web, chunkVars, auxVars>>

\* the link loop: the links of the page not yet visited join the queue
CrawlLinks ==
    /\ ingest.op = "IngestKialiDocs"
    /\ ingest.pc = "sections"
    /\ ingest.pending = <<>>
    /\ ingest' = [ingest EXCEPT
                     !.pc = "loop",
                     !.curr = <<>>,
                     !.links = <<>>,
                     !.queue = @ \o SelectSeq(ingest.links,
                                      LAMBDA link :
                                          /\ Contains(link, <<"kiali.io">>)
                                          /\ ~IsVisited(ingest.visited, link)
                                          /\ shouldCrawl(link))]
    /\ last' = [NoCall EXCEPT !.op = "links"]
    /\ UNCHANGED <<backend, documents, embeddings, nextId, web, chunkVars, auxVars>>

\* the queue is empty: return ingested, skipped, nil
CrawlReturn ==
    /\ ingest.op = "IngestKialiDocs"
    /\ ingest.pc = "loop"
    /\ ingest.queue = <<>>
    /\ ingest' = [ingest EXCEPT !.pc = "done", !.embedOk = FALSE,
                                !.embedErr = FALSE]
    /\ last' = [NoCall EXCEPT !.op = "IngestKialiDocs", !.n = ingest.ingested,
                              !.out = <<ingest.ingested, ingest.skipped>>]
    /\ UNCHANGED <<backend, documents, embeddings, nextId, web, chunkVars, auxVars>>

\* IngestYouTube up to the item loop
IngestYouTubeCall(Inputs) ==
    /\ ingest.pc \in {"idle", "done"}
    /\ ingest.calls < MaxIngests
    /\ \E parts \in Inputs, env \in PlaylistEnvs :
         IF ~\E i \in 1..Len(parts) : Contains(parts[i], <<"http">>)
         THEN /\ ingest' = [IdleIngest EXCEPT !.op = "IngestYouTube",
                                              !.pc = "done",
                                              !.faulted = ingest.faulted,
                                              !.calls = ingest.calls + 1]
              /\ last' = [NoCall EXCEPT !.op = "IngestYouTube", !.err = TRUE,
                                        !.query = parts]
         ELSE /\ ingest' = [IdleIngest EXCEPT !.op = "IngestYouTube",
                                              !.pc = "items",
                                              !.faulted = ingest.faulted,
                                              !.calls = ingest.calls + 1,
                                              !.merged = MergedURLs(parts, env),
                                              !.pending = FinalURLs(parts, env)]
              /\ last' = [NoCall EXCEPT !.op = "start", !.query = parts]
    /\ UNCHANGED <<backend, documents, embeddings, nextId, web, chunkVars, auxVars>>

DoIngestYouTube == IngestYouTubeCall(YtInputs)

\* what fetchRaw(u) can give: -1 for an error, which is all that
\* httpClient.Get gives for a string without a scheme
FetchRawOutcomes(u) == IF IsAbs(u) THEN {-1} \cup YtBodies ELSE {-1}

\* one iteration of the item loop
YtItem ==
    /\ ingest.op = "IngestYouTube"
    /\ ingest.pc = "items"
    /\ ingest.pending # <<>>
    /\ LET u == Head(ingest.pending)
       IN  \E existsOk \in CtxOutcomes(ingest.expired), body \in FetchRawOutcomes(u),
              docOk \in CtxOutcomes(ingest.expired) :
             \E script \in (IF docOk /\ body >= 0
                            THEN Scripts(Len(ContentChunks(body)), StoreVecs)
                            ELSE {<<>>}) :
                LET r == ingestItem(backend, documents, embeddings, nextId, u,
                                    existsOk, body, docOk, script)
                IN  /\ documents' = r.documents
                    /\ embeddings' = r.embeddings
                    /\ nextId' = r.nextId
                    /\ ingest' = [ingest EXCEPT
                                     !.pending = Tail(@),
                                     !.ingested = @ + r.ingested,
                                     !.skipped = @ + r.skipped,
                                     !.faulted = @ \/ r.fault \/ r.err,
                                     !.embedOk = @ \/ EmbedSucceeded(r, script),
                                     !.embedErr = @ \/ EmbedFailedIn(r, script),
                                     !.checked = Append(@, u),
                                     !.fetches = IF r.fetched THEN Append(@, u)
                                                 ELSE @,
                                     !.upserts = IF r.upserted THEN Append(@, u)
                                                 ELSE @]
                    /\ last' = [NoCall EXCEPT !.op = "item", !.err = r.err,
                                              !.fault = ~existsOk,
                                              !.embedCalls = r.embedCalls,
                                              !.url = u,
                                              !.body = IF r.fetched THEN body
                                                       ELSE -2]
    /\ UNCHANGED <<backend, web, chunkVars, auxVars>>

\* the list is exhausted: return ingested, skipped, nil
YtReturn ==
    /\ ingest.op = "IngestYouTube"
    /\ ingest.pc = "items"
    /\ ingest.pending = <<>>
    /\ ingest' = [ingest EXCEPT !.pc = "done", !.merged = <<>>, !.checked = <<>>,
                                !.fetches = <<>>, !.upserts = <<>>,
                                !.embedOk = FALSE, !.embedErr = FALSE]
    /\ last' = [NoCall EXCEPT !.op = "IngestYouTube", !.n = ingest.ingested,
                              !.out = <<ingest.ingested, ingest.skipped>>]
    /\ UNCHANGED <<backend, documents, embeddings, nextId, web, chunkVars, auxVars>>

\* a step of a running IngestKialiDocs call
CrawlStep == CrawlDequeue \/ CrawlSection \/ CrawlLinks \/ CrawlReturn

\* a step of a running IngestYouTube call
YtStep == YtItem \/ YtReturn

NextIngest == DoIngestKialiDocs \/ DoIngestYouTube \/ CrawlStep \/ YtStep

\* both ingestion handlers, called one after the other
SpecIngest == InitIngest /\ [][NextIngest]_vars

NextCrawl == DoIngestKialiDocs \/ CrawlStep

\* IngestKialiDocs alone, called repeatedly.  A call that has started keeps
\* running: the code is sequential, and every fetch, embedding call and query
\* returns (the HTTP client has a timeout)
SpecCrawlFair == InitIngest /\ [][NextCrawl]_vars /\ WF_vars(CrawlStep)

\* IngestYouTube alone, on inputs whose merged list repeats URLs
DoIngestYouTubeMerged == IngestYouTubeCall(YtMergeInputs)

NextYouTube == DoIngestYouTubeMerged \/ YtStep

SpecYouTube == Init /\ [][NextYouTube]_vars

\* IngestYouTube alone, on references that are and are not URLs
DoIngestYouTubeReference == IngestYouTubeCall(YtReferences)

NextReference == DoIngestYouTubeReference \/ YtStep

SpecReference == Init /\ [][NextReference]_vars

\* Clean, called while no ingestion call is running
CleanBetween ==
    /\ ingest.pc \in {"idle", "done"}
    /\ DoClean

NextRepair == NextIngest \/ CleanBetween

\* the two ingestion handlers and Clean, called one after the other
SpecRepair == InitIngest /\ [][NextRepair]_vars

\* the deadline getContextWithTimeout gave the ctx of the running ingestion
\* call passes
DeadlineExpires ==
    /\ ingest.pc \notin {"idle", "done"}
    /\ ~ingest.expired
    /\ ingest' = [ingest EXCEPT !.expired = TRUE]
    /\ last' = [NoCall EXCEPT !.op = "deadline"]
    /\ UNCHANGED <<backend, documents, embeddings, nextId, web, chunkVars, auxVars>>

NextDeadline == NextIngest \/ DeadlineExpires

SpecDeadline == InitIngest /\ [][NextDeadline]_vars

----------------------------------------------------------------------------
(* expandPlaylist on its own: a playlist URL and an environment are drawn,  *)
(* and one call is made.                                                    *)

PlaylistNoId == <<"https://", "youtube.com", "/playlist">>

PlaylistURLs == {Playlist, PlaylistNoId}

\* what the listing API returns (videoId per item, "" for an item without
\* one) and the anchors of the playlist page
ApiIds == {<<>>, <<"">>, <<"x", "", "x">>, <<"y", "x">>}

PageHrefs ==
    {<<>>, <<V1>>, <<A, <<"/embed/", "y">>>>,
     <<<<"/watch?v=", "y">>, <<"/watch?v=", "x">>, V1, <<"/embed/", "y">>,
       <<"/watch?v=", "y">>>>}

ExpandEnvs ==
    [key : BOOLEAN, api : [ok : BOOLEAN, ids : ApiIds],
     html : [ok : BOOLEAN, hrefs : PageHrefs]]

InitPlaylist ==
    /\ InitStore
    /\ ChunkIdle
    /\ IngestIdle
    /\ ProcsIdle
    /\ AuthIdle
    /\ CalcIdle
    /\ \E u \in PlaylistURLs, env \in ExpandEnvs :
         playlist = [IdlePlaylist EXCEPT !.url = u, !.env = env]

ExpandCall ==
    /\ ~playlist.called
    /\ LET r == expandPlaylist(playlist.url, playlist.env)
       IN  playlist' = [playlist EXCEPT !.called = TRUE, !.err = r.err,
                                        !.apiCalls = r.apiCalls,
                                        !.htmlFetches = r.htmlFetches,
                                        !.videos = r.videos]
    /\ UNCHANGED <<storeVars, chunkVars, ingestVars, concVars, auth, calc>>

NextPlaylist == ExpandCall

SpecPlaylist == InitPlaylist /\ [][NextPlaylist]_vars

----------------------------------------------------------------------------
(* Helpers of the properties *)

RECURSIVE Flatten(_)
Flatten(ss) == IF ss = <<>> THEN <<>> ELSE Head(ss) \o Flatten(Tail(ss))

DocIds(docs) == {d.id : d \in docs}

UrlsOf(docs) == {d.url : d \in docs}

\* the rows of document id, in row order
RECURSIVE RowsOf(_, _)
RowsOf(embs, id) ==
    IF embs = <<>> THEN <<>>
    ELSE (IF Head(embs).document_id = id THEN <<Head(embs)>> ELSE <<>>)
         \o RowsOf(Tail(embs), id)

IsPrefix(p, q) == Len(p) <= Len(q) /\ SubSeq(q, 1, Len(p)) = p

CeilDiv(n, w) == (n + w - 1) \div w

\* the number of words of each content, and of each of its chunks
WordCountTable == {<<c, Len(Fields(ContentText(c)))>> : c \in AllContents}

WordCount(c) == (CHOOSE p \in WordCountTable : p[1] = c)[2]

ChunkWordsTable ==
    {<<c, [i \in 1..Len(ContentChunks(c)) |-> Len(Fields(ContentChunks(c)[i]))]>> :
        c \in AllContents}

ChunkWords(c) == (CHOOSE p \in ChunkWordsTable : p[1] = c)[2]

----------------------------------------------------------------------------
C7_UpsertCounts ==
    [][(last'.op = "upsertDocument" /\ ~last'.err) =>
         /\ documents \subseteq documents'
         /\ Cardinality(documents' \ documents) = 1
         /\ \A d \in documents' \ documents :
               LET n == WordCount(d.content)
               IN  /\ d.id = last'.n
                   /\ last'.embedCalls = CeilDiv(n, ChunkWindow)
                   /\ Len(embeddings') = Len(embeddings) + CeilDiv(n, ChunkWindow)
                   /\ SubSeq(embeddings', 1, Len(embeddings)) = embeddings
                   /\ Len(RowsOf(embeddings', d.id)) = CeilDiv(n, ChunkWindow)
                   /\ n = 1700 => /\ ChunkWords(d.content) = <<800, 800, 100>>
                                  /\ last'.embedCalls = 3
                                  /\ Len(RowsOf(embeddings', d.id)) = 3
      ]_vars

\* the 1700-word document has been upserted: three calls, three rows
C7_Witness ==
    /\ last.op = "upsertDocument" /\ ~last.err /\ last.embedCalls = 3
    /\ \E d \in documents : /\ d.id = last.n
                            /\ WordCount(d.content) = 1700
                            /\ Len(RowsOf(embeddings, d.id)) = 3

(* C8: in every reachable state the rows of each document carry the         *)
(* positions 0, 1, ..., m-1 in row order, and the row at position i holds    *)
(* the snippet of chunk i of the document's content.                         *)
C8_PositionsContiguous ==
    \A d \in documents :
        LET rows == RowsOf(embeddings, d.id)
            chs  == ContentChunks(d.content)
        IN  /\ Len(rows) <= Len(chs)
            /\ \A i \in 1..Len(rows) :
                  /\ rows[i].position = i - 1
                  /\ IsPrefix(rows[i].snippet, chs[i])

\* an upsert failed after two of three chunks, beside a complete document
C8_Witness ==
    /\ last.op = "upsertDocument" /\ last.err
    /\ \E d \in documents : d.id = last.n /\ Len(RowsOf(embeddings, d.id)) = 2
    /\ \E d \in documents : d.id # last.n /\ Len(RowsOf(embeddings, d.id)) = 3

----------------------------------------------------------------------------
(* C4: every search that returns gives at most k results and, on the sqlite *)
(* backend, gives them in non-increasing order of cosine similarity to the  *)
(* query vector.                                                            *)
C4_SearchBoundedAndOrdered ==
    (last.op = "search" /\ ~last.err /\ ~last.panic) =>
        /\ Len(last.out) <= last.k
        /\ backend = "sqlite" =>
              \A i, j \in 1..Len(last.out) :
                  i < j => SimLeq(cosine(last.out[j].Vector, last.query),
                                  cosine(last.out[i].Vector, last.query))

(* C5: a search whose storage query works returns an empty sequence without *)
(* failing when k <= 0, and returns every stored chunk when the store holds *)
(* fewer than k chunks.                                                     *)
C5_SearchSmallK ==
    (last.op = "search" /\ ~last.fault) =>
        /\ last.k <= 0 => (~last.err /\ ~last.panic /\ last.out = <<>>)
        /\ Len(embeddings) < last.k =>
              (~last.err /\ ~last.panic /\ Len(last.out) = Len(embeddings))

(* C10: Answer with an empty or whitespace-only query returns an error and  *)
(* makes no embedding call, no storage query and no completion call.        *)
C10_EmptyQueryRejected ==
    (last.op = "Answer" /\ TrimSpace(last.query) = <<>>) =>
        /\ last.err
        /\ last.embedCalls = 0
        /\ last.searchCalls = 0
        /\ last.completeCalls = 0
        /\ last.out = <<>>

\* Answer was called with a whitespace-only query on a store that holds chunks
C10_Witness ==
    /\ last.op = "Answer" /\ last.query = <<"\t", "\n">> /\ last.err
    /\ Len(embeddings) >= 1

----------------------------------------------------------------------------
(* C6: for a window w >= 1, splitIntoChunks(text, w) gives ceil(n/w) chunks *)
(* for a text of n words; every chunk but the last holds exactly w words,   *)
(* the last holds 1..w; every chunk is its words joined by single spaces;   *)
(* the words of the chunks, in order, are the words of the text; a text      *)
(* without words gives no chunk.                                             *)
C6_ChunksPartitionWords ==
    chunks.done =>
        LET words == Fields(text)
            cs    == chunks.out
            w     == wordsPerChunk
        IN  /\ Len(cs) = CeilDiv(Len(words), w)
            /\ \A i \in 1..Len(cs) :
                  LET n == Len(Fields(cs[i]))
                  IN  /\ i < Len(cs) => n = w
                      /\ 1 <= n /\ n <= w
                      /\ cs[i] = Join(SubSeq(words, (i - 1) * w + 1,
                                             min(i * w, Len(words))), <<" ">>)
            /\ Flatten([i \in 1..Len(cs) |-> Fields(cs[i])]) = words
            /\ words = <<>> => cs = <<>>

\* three words split with a window of two: a full chunk and a shorter last one
C6_Witness ==
    /\ chunks.done
    /\ wordsPerChunk = 2
    /\ Fields(text) = <<<<"a">>, <<"b">>, <<"a">>>>
    /\ chunks.out = <<<<"a", " ", "b">>, <<"a">>>>

----------------------------------------------------------------------------
(* Helpers of the ingestion properties *)

\* the sections of page p that pass the minimum-length filter
KeptSections(p) ==
    SelectSeq(extractKialiSections(web[p], p),
              LAMBDA sec : Len(TrimSpace(ContentText(sec.Content))) >= MinSectionLen)

\* every kept section of every page visited has one document row, with its
\* chunks, and the pages linked from a visited page are visited
AllSectionsOnce ==
    \A p \in ingest.visited \cap DOMAIN web :
        /\ \A i \in 1..Len(KeptSections(p)) :
              LET sec  == KeptSections(p)[i]
                  rows == {d \in documents : d.url = sec.URL}
              IN  /\ Cardinality(rows) = 1
                  /\ \A d \in rows :
                        Len(RowsOf(embeddings, d.id)) = Len(ContentChunks(sec.Content))
        /\ \A j \in 1..Len(collectKialiLinks(web[p], p)) :
              collectKialiLinks(web[p], p)[j] \in ingest.visited

NoDuplicate(s) == \A i, j \in 1..Len(s) : s[i] = s[j] => i = j

\* the URL the running call is about to check, and whether the check is made
PendingURL ==
    IF ingest.op = "IngestKialiDocs" THEN Head(ingest.pending).URL
    ELSE Head(ingest.pending)

PendingIsChecked ==
    ingest.op = "IngestKialiDocs" =>
        Len(TrimSpace(ContentText(Head(ingest.pending).Content))) >= MinSectionLen

----------------------------------------------------------------------------
(* C3: in IngestKialiDocs and IngestYouTube, for a section or item whose URL *)
(* already has a document row and for which documentExists answers true, no  *)
(* embedding call is made, no document or chunk row is added, skipped grows  *)
(* by exactly 1 and ingested is unchanged.                                   *)
C3_ExistingUrlSkipped ==
    [][(/\ last'.op \in {"section", "item"}
        /\ ~last'.fault
        /\ PendingIsChecked
        /\ \E d \in documents : d.url = PendingURL)
       => (/\ documents' = documents
           /\ embeddings' = embeddings
           /\ nextId' = nextId
           /\ last'.embedCalls = 0
           /\ ingest'.skipped = ingest.skipped + 1
           /\ ingest'.ingested = ingest.ingested)]_vars

\* a second crawl has met a section that the first one stored
C3_Witness ==
    /\ last.op = "section"
    /\ ~last.fault
    /\ ingest.calls = 2
    /\ ingest.skipped = 1
    /\ ingest.ingested = 0
    /\ \E d \in documents : d.url = last.url

----------------------------------------------------------------------------
----------------------------------------------------------------------------
(* C11: when the embedding call for the query fails, Answer returns an      *)
(* error with no answer and no citations, and makes neither the storage     *)
(* search nor the completion call.                                          *)
C11_EmbedFailureStopsAnswer ==
    (last.op = "Answer" /\ last.embedErr /\ last.embedCalls = 1) =>
        /\ last.err
        /\ ~last.panic
        /\ ~last.answered
        /\ last.out = <<>>
        /\ last.searchCalls = 0
        /\ last.completeCalls = 0

\* Answer was called with a real query on a store that holds chunks, and the
\* embedding call failed
C11_Witness ==
    /\ last.op = "Answer" /\ last.embedErr /\ last.embedCalls = 1
    /\ TrimSpace(last.query) # <<>>
    /\ Len(embeddings) >= 1

----------------------------------------------------------------------------
(* C12: expandPlaylist asks the listing API only when a key is configured   *)
(* and the URL carries a playlist id; without a key, or when the API call   *)
(* fails or gives no item, it fetches the playlist page and returns the     *)
(* watch links of its anchors, each once, in the order of first occurrence. *)

\* the watch links of the anchors of the fetched page, in page order
WatchLinks ==
    LET hrefs == SelectSeq(playlist.env.html.hrefs,
                     LAMBDA h : Contains(h, <<"/watch?">>) /\ Contains(h, <<"v=">>))
    IN  [i \in 1..Len(hrefs) |->
            normalizeYouTubeWatchURL(resolveURL(playlist.url, hrefs[i]))]

FirstIndex(s, x) == CHOOSE i \in 1..Len(s) : s[i] = x /\ \A j \in 1..(i - 1) : s[j] # x

\* out holds every element of s once, ordered by first occurrence in s
IsFirstSeenDedup(out, s) ==
    /\ {out[i] : i \in 1..Len(out)} = {s[i] : i \in 1..Len(s)}
    /\ \A i, j \in 1..Len(out) :
          i < j => out[i] # out[j] /\ FirstIndex(s, out[i]) < FirstIndex(s, out[j])

ApiGaveNothing ==
    \/ ~playlist.env.api.ok
    \/ \A i \in 1..Len(playlist.env.api.ids) : playlist.env.api.ids[i] = ""

C12_PlaylistApiOrHtml ==
    playlist.called =>
        /\ playlist.apiCalls = 1 =>
              (playlist.env.key /\ extractPlaylistID(playlist.url) # "")
        /\ (~playlist.env.key \/ ApiGaveNothing) =>
              /\ playlist.htmlFetches = 1
              /\ playlist.env.html.ok =>
                    /\ ~playlist.err
                    /\ IsFirstSeenDedup(playlist.videos, WatchLinks)

\* the API was asked and gave nothing, and the page held the same video
\* under a relative and an absolute link
C12_Witness ==
    /\ playlist.called /\ playlist.apiCalls = 1 /\ playlist.htmlFetches = 1
    /\ ~playlist.err
    /\ Len(playlist.videos) = 2
    /\ Len(WatchLinks) = 4

----------------------------------------------------------------------------
(* C13: the list IngestYouTube works through holds every URL of the merged  *)
(* list (the input URLs with the playlists expanded) exactly once, in the   *)
(* order of first occurrence; within one call no URL is given twice to the  *)
(* existence check, to the fetch or to upsertDocument.                      *)
C13_ItemsDeduplicated ==
    (ingest.op = "IngestYouTube" /\ ingest.pc \in {"items", "done"}) =>
        /\ IsFirstSeenDedup(ingest.checked \o ingest.pending, ingest.merged)
        /\ NoDuplicate(ingest.checked)
        /\ NoDuplicate(ingest.fetches)
        /\ NoDuplicate(ingest.upserts)

\* a call whose merged list held a URL twice and two different URLs has gone
\* through its list, fetching and storing both
C13_Witness ==
    /\ ingest.op = "IngestYouTube" /\ ingest.pc = "items" /\ ingest.pending = <<>>
    /\ Len(ingest.merged) = 3
    /\ Len(ingest.checked) = 2
    /\ Len(ingest.upserts) = 2

----------------------------------------------------------------------------
(* Concurrent requests.  net/http serves every request on its own goroutine *)
(* and the engine holds no lock; every call runs its SQL statements one by  *)
(* one in autocommit mode on a pooled connection, so the statements of      *)
(* different calls interleave.  One action is one statement of one call     *)
(* (with the embedding call that precedes an INSERT into embeddings).       *)
(* The postgres schema declares embeddings.document_id REFERENCES           *)
(* documents(id) and postgres enforces it; the sqlite connection is opened  *)
(* without PRAGMA foreign_keys=ON, so sqlite does not.                      *)

MaxCalls == 3

ConcUrls == {<<"u1">>, <<"u2">>}

ConcContent == 1

Running(w) == procs[w].pc # "idle"

\* worker w goes to rec, starting a call: the calls running at that moment
\* overlap with it
StartProc(w, rec) ==
    /\ procs' = [v \in Workers |->
                   IF v = w
                   THEN [rec EXCEPT !.overlap = \E x \in Workers \ {w} : Running(x)]
                   ELSE IF Running(v) THEN [procs[v] EXCEPT !.overlap = TRUE]
                   ELSE procs[v]]
    /\ started' = started + 1

StepProc(w, rec) ==
    /\ procs' = [procs EXCEPT ![w] = rec]
    /\ started' = started

\* whether the backend enforces embeddings.document_id REFERENCES documents(id)
ForeignKeysEnforced(be) == be = "postgres"

Referenced(embs, ids) == \E k \in 1..Len(embs) : embs[k].document_id \in ids

\* the body of an ingestion loop for one URL, first statement:
\* exists, _ := e.documentExists(ctx, url)
IngestCheck(w) ==
    /\ ~Running(w)
    /\ started < MaxCalls
    /\ \E u \in ConcUrls, existsOk \in BOOLEAN :
         LET seen == SectionExists(documents, u, existsOk)
         IN  StartProc(w, [IdleProc EXCEPT !.op = "ingest", !.url = u,
                                           !.pc = IF seen THEN "idle" ELSE "insert",
                                           !.sawAbsent = existsOk /\ ~seen])
    /\ UNCHANGED <<storeVars, chunkVars, ingestVars, playlist, auth, calc>>

\* upsertDocument: INSERT INTO documents
IngestInsert(w) ==
    /\ procs[w].pc = "insert"
    /\ \E docOk \in BOOLEAN :
         IF ~docOk
         THEN /\ StepProc(w, [procs[w] EXCEPT !.pc = "idle", !.err = TRUE])
              /\ UNCHANGED <<documents, nextId>>
         ELSE /\ documents' = documents \cup
                     {[id |-> nextId, title |-> "t", url |-> procs[w].url,
                       content |-> ConcContent]}
              /\ nextId' = nextId + 1
              /\ StepProc(w, [procs[w] EXCEPT
                                !.pc = IF ContentChunks(ConcContent) = <<>>
                                       THEN "idle" ELSE "chunks",
                                !.id = nextId,
                                !.raced = \E d \in documents : d.url = procs[w].url])
    /\ UNCHANGED <<backend, embeddings, last, chunkVars, ingestVars, playlist, auth, calc>>

\* upsertDocument: e.embed and INSERT INTO embeddings for chunk i
IngestChunk(w) ==
    /\ procs[w].pc = "chunks"
    /\ \E o \in StepOutcomes(StoreVecs) :
         LET chs == ContentChunks(ConcContent)
             i == procs[w].i
             refused == /\ ForeignKeysEnforced(backend)
                        /\ procs[w].id \notin {d.id : d \in documents}
         IN  IF o.emb = "err" \/ o.store = "err" \/ refused
                \/ (backend = "postgres" /\ Len(o.vec) # embeddingDim)
             THEN /\ StepProc(w, [procs[w] EXCEPT !.pc = "idle", !.err = TRUE])
                  /\ UNCHANGED embeddings
             ELSE /\ embeddings' = Append(embeddings,
                         EmbeddingRow(backend, procs[w].id, i, chs[i + 1], o.vec))
                  /\ StepProc(w, [procs[w] EXCEPT
                                    !.i = i + 1,
                                    !.pc = IF i + 1 = Len(chs) THEN "idle"
                                           ELSE "chunks"])
    /\ UNCHANGED <<backend, documents, nextId, last, chunkVars, ingestVars, playlist, auth, calc>>

\* Clean: DELETE FROM embeddings
CleanEmbeddings(w) ==
    /\ ~Running(w)
    /\ started < MaxCalls
    /\ \E ok \in BOOLEAN :
         IF ~ok
         THEN /\ StartProc(w, [IdleProc EXCEPT !.op = "Clean", !.err = TRUE])
              /\ UNCHANGED embeddings
         ELSE /\ StartProc(w, [IdleProc EXCEPT !.op = "Clean", !.pc = "documents"])
              /\ embeddings' = <<>>
    /\ UNCHANGED <<backend, documents, nextId, last, chunkVars, ingestVars, playlist, auth, calc>>

\* Clean: DELETE FROM documents
CleanDocuments(w) ==
    /\ procs[w].op = "Clean" /\ procs[w].pc = "documents"
    /\ \E ok \in BOOLEAN :
         IF ~ok \/ (ForeignKeysEnforced(backend)
                    /\ Referenced(embeddings, {d.id : d \in documents}))
         THEN /\ StepProc(w, [procs[w] EXCEPT !.pc = "idle", !.err = TRUE])
              /\ UNCHANGED documents
         ELSE /\ StepProc(w, [procs[w] EXCEPT !.pc = "idle",
                                              !.removed = Cardinality(documents)])
              /\ documents' = {}
    /\ UNCHANGED <<backend, embeddings, nextId, last, chunkVars, ingestVars, playlist, auth, calc>>

\* Deduplicate: the SELECT of the duplicate ids
DedupQuery(w) ==
    /\ ~Running(w)
    /\ started < MaxCalls
    /\ \E ok \in BOOLEAN, dupIDs \in Orderings(DuplicateIds(documents)) :
         IF ~ok
         THEN StartProc(w, [IdleProc EXCEPT !.op = "Deduplicate", !.err = TRUE])
         ELSE StartProc(w, [IdleProc EXCEPT !.op = "Deduplicate",
                                            !.dupIDs = dupIDs,
                                            !.pc = IF dupIDs = <<>> THEN "idle"
                                                   ELSE "embeddings"])
    /\ UNCHANGED <<storeVars, chunkVars, ingestVars, playlist, auth, calc>>

\* Deduplicate: DELETE FROM embeddings WHERE document_id = id
DedupEmbeddings(w) ==
    /\ procs[w].op = "Deduplicate" /\ procs[w].pc = "embeddings"
    /\ \E ok \in BOOLEAN :
         IF ~ok
         THEN /\ StepProc(w, [procs[w] EXCEPT !.pc = "idle", !.err = TRUE])
              /\ UNCHANGED embeddings
         ELSE /\ StepProc(w, [procs[w] EXCEPT !.pc = "documents"])
              /\ embeddings' = DeleteEmbeddings(embeddings, {Head(procs[w].dupIDs)})
    /\ UNCHANGED <<backend, documents, nextId, last, chunkVars, ingestVars, playlist, auth, calc>>

\* Deduplicate: DELETE FROM documents WHERE id = id, and on to the next id
DedupDocuments(w) ==
    /\ procs[w].op = "Deduplicate" /\ procs[w].pc = "documents"
    /\ \E ok \in BOOLEAN :
         LET id == Head(procs[w].dupIDs)
             hit == {d \in documents : d.id = id}
         IN  IF ~ok \/ (ForeignKeysEnforced(backend) /\ Referenced(embeddings, {id}))
             THEN /\ StepProc(w, [procs[w] EXCEPT !.pc = "idle", !.err = TRUE])
                  /\ UNCHANGED documents
             ELSE /\ StepProc(w, [procs[w] EXCEPT
                                    !.dupIDs = Tail(@),
                                    !.removed = @ + Cardinality(hit),
                                    !.pc = IF Tail(procs[w].dupIDs) = <<>>
                                           THEN "idle" ELSE "embeddings"])
                  /\ documents' = documents \ hit
    /\ UNCHANGED <<backend, embeddings, nextId, last, chunkVars, ingestVars, playlist, auth, calc>>

NextConc ==
    \E w \in Workers :
        \/ IngestCheck(w) \/ IngestInsert(w) \/ IngestChunk(w)
        \/ CleanEmbeddings(w) \/ CleanDocuments(w)
        \/ DedupQuery(w) \/ DedupEmbeddings(w) \/ DedupDocuments(w)

SpecConc == Init /\ [][NextConc]_vars

----------------------------------------------------------------------------
(* C14: in every reachable state, also while upsertDocument, Deduplicate    *)
(* and Clean calls run at the same time, every row of embeddings carries    *)
(* the id of an existing row of documents.                                  *)
C14_NoOrphanChunk ==
    \A k \in 1..Len(embeddings) :
        embeddings[k].document_id \in {d.id : d \in documents}

\* the same on the backend that enforces the foreign key
NoOrphanChunkOnPostgres ==
    backend = "postgres" => C14_NoOrphanChunk

----------------------------------------------------------------------------
(* C15: two ingestion requests for the same URL that run at the same time   *)
(* can both get false from documentExists and both insert a document row    *)
(* (C15_Witness is such a run); a Deduplicate call that runs after the      *)
(* requests have finished, and succeeds, leaves exactly one document row    *)
(* for every URL that had one.                                              *)

\* worker w returns from Deduplicate in this step, without error, no other
\* call having run beside it
DedupReturnsAlone(w) ==
    /\ procs'[w] # procs[w]
    /\ procs'[w].op = "Deduplicate" /\ procs'[w].pc = "idle"
    /\ ~procs'[w].err /\ ~procs'[w].overlap

----------------------------------------------------------------------------
(* C16: when the deadline of the caller's ctx passes while IngestKialiDocs  *)
(* or IngestYouTube runs, the call returns an error; it never returns       *)
(* counts without error.                                                    *)
C16_DeadlineGivesError ==
    (ingest.pc = "done" /\ ingest.expired) => last.err

----------------------------------------------------------------------------
(* C17: in IngestKialiDocs and IngestYouTube a page or item whose fetch      *)
(* fails, a section of fewer than 10 characters (trimmed) and an item whose  *)
(* body has fewer than 200 bytes change neither ingested nor skipped, add    *)
(* no row, and the loop goes on with the next URL; a call that has entered   *)
(* its loop returns without error.                                           *)

\* the step handles a page whose fetch fails
PageFetchFails == last'.op = "dequeue" /\ last'.fault

\* the step handles a section below the minimum length
SectionTooShort ==
    /\ last'.op = "section"
    /\ Len(TrimSpace(ContentText(Head(ingest.pending).Content))) < MinSectionLen

\* the step handles an item whose fetch fails or whose body is too short
ItemUnusable ==
    /\ last'.op = "item"
    /\ \/ last'.body = -1
       \/ last'.body >= 0 /\ Len(ContentText(last'.body)) < MinBodyLen

C17_UnusableIsPassedOver ==
    [][/\ (PageFetchFails \/ SectionTooShort \/ ItemUnusable) =>
            /\ ingest'.ingested = ingest.ingested
            /\ ingest'.skipped = ingest.skipped
            /\ documents' = documents
            /\ embeddings' = embeddings
            /\ nextId' = nextId
            /\ ~last'.err
            /\ ingest'.pc = ingest.pc
            /\ IF last'.op = "dequeue" THEN ingest'.queue = Tail(ingest.queue)
               ELSE ingest'.pending = Tail(ingest.pending)
       /\ (last'.op \in {"IngestKialiDocs", "IngestYouTube"}
           /\ ingest.pc \in {"loop", "items"}) => ~last'.err]_vars

\* IngestYouTube has just fetched an item with a body of 199 bytes: nothing
\* is counted or stored, and the loop is still running
C17_Witness ==
    /\ last.op = "item" /\ last.body = 100
    /\ Len(ContentText(last.body)) = MinBodyLen - 1
    /\ ingest.pc = "items"
    /\ ingest.ingested = 0 /\ ingest.skipped = 0
    /\ documents = {}

----------------------------------------------------------------------------
(* C18: an ingestion call in which every embedding call fails (the          *)
(* provider cannot be reached at all) is aborted and returns an error.      *)
C18_UnreachableProviderAborts ==
    [][(/\ last'.op \in {"IngestKialiDocs", "IngestYouTube"}
        /\ ingest.pc \in {"loop", "items"}
        /\ ingest.embedErr /\ ~ingest.embedOk) => last'.err]_vars

----------------------------------------------------------------------------
(* The store when the embedding provider returns vectors of any length: a   *)
(* model of another dimension than the configured one answers the calls.    *)

DimVecs == {<<F32(1)>>, <<F32(1), F32(0)>>, <<F32(1), F32(0), F32(0)>>}

DoUpsertAnyDim == UpsertCall(Urls, {1}, DimVecs)

NextDim == DoUpsertAnyDim \/ DoDeduplicate \/ DoClean

SpecDim == Init /\ [][NextDim]_vars

\* the vector of a stored row as search reads it back
VectorOf(be, row) == IF be = "postgres" THEN row.vector ELSE blobToFloats(row.vector)

----------------------------------------------------------------------------
(* C19: in every reachable state the vector of every stored chunk has the   *)
(* configured dimension embeddingDim, on both backends, whatever the length *)
(* of the vectors the embedding provider returns.                           *)
C19_VectorsHaveConfiguredDim ==
    \A k \in 1..Len(embeddings) :
        Len(VectorOf(backend, embeddings[k])) = embeddingDim

\* the same on the backend whose column is declared VECTOR(dim)
VectorsHaveConfiguredDimOnPostgres ==
    backend = "postgres" => C19_VectorsHaveConfiguredDim

----------------------------------------------------------------------------
(* AuthMiddleware.  Strings are sequences of characters.  An Authorization  *)
(* header is its scheme (the text up to and including the blank), the text  *)
(* its payload is the base64 encoding of, and whether characters that are   *)
(* no base64 follow the encoded text.                                       *)

StatusOK == 200

StatusUnauthorized == 401

Paths == {"/healthz", "/healthz/", "/v1/chat"}

ApiKeys == {<<>>, <<"k">>, <<"x">>}

Payloads ==
    {<<>>, <<":">>, <<"u">>, <<"u", ":">>, <<"u", ":", "p">>, <<"x", ":", "p">>,
     <<"u", ":", "p", ":", "q">>}

Authorizations ==
    {NoAuthorization} \cup
    [scheme : {"Basic ", "basic ", "Bearer "}, text : Payloads, garbage : BOOLEAN]

Requests == [path : Paths, apiKey : ApiKeys, authorization : Authorizations]

AuthEnvs ==
    [API_KEY : {<<>>, <<"k">>}, BASIC_AUTH_USER : {<<>>, <<"u">>},
     BASIC_AUTH_PASS : {<<>>, <<"p">>, <<"p", ":", "q">>}]

\* payload, _ := base64.StdEncoding.DecodeString(...): the bytes decoded before
\* the first character that is no base64; the error is dropped
DecodeString(a) == a.text

\* strings.SplitN(s, ":", 2)
SplitN2(str) ==
    IF \E i \in 1..Len(str) : str[i] = ":"
    THEN LET i == CHOOSE i \in 1..Len(str) :
                      str[i] = ":" /\ \A j \in 1..(i - 1) : str[j] # ":"
         IN  <<SubSeq(str, 1, i - 1), SubSeq(str, i + 1, Len(str))>>
    ELSE <<str>>

\* faulty variant: an unset API_KEY is matched by a request without the header
ApiKeyAcceptedWhenUnset(apiKey, expected) == apiKey = expected

\* expected != "" && apiKey == expected
ApiKeyAccepted(apiKey, expected) == expected # <<>> /\ apiKey = expected

\* the Basic branch of the middleware
BasicAccepted(a, env) ==
    /\ a.scheme = "Basic "
    /\ LET parts == SplitN2(DecodeString(a))
       IN  /\ Len(parts) = 2
           /\ parts[1] = env.BASIC_AUTH_USER
           /\ parts[2] = env.BASIC_AUTH_PASS
           /\ env.BASIC_AUTH_USER # <<>>

\* whether the middleware calls next.ServeHTTP
PassesAuth(req, env) ==
    \/ req.path = "/healthz"
    \/ ApiKeyAccepted(req.apiKey, env.API_KEY)
    \/ BasicAccepted(req.authorization, env)

InitAuth ==
    /\ InitStore
    /\ ChunkIdle
    /\ IngestIdle
    /\ playlist = IdlePlaylist
    /\ ProcsIdle
    /\ CalcIdle
    /\ \E env \in AuthEnvs : auth = [IdleAuth EXCEPT !.env = env]

\* the middleware serves one request; the handlers answer 200
ServeHTTP ==
    /\ \E req \in Requests :
         auth' = [auth EXCEPT
                     !.served = TRUE,
                     !.req = req,
                     !.reached = PassesAuth(req, auth.env),
                     !.status = IF PassesAuth(req, auth.env) THEN StatusOK
                                ELSE StatusUnauthorized]
    /\ UNCHANGED <<storeVars, chunkVars, ingestVars, playlist, concVars, calc>>

NextAuth == ServeHTTP

SpecAuth == InitAuth /\ [][NextAuth]_vars

----------------------------------------------------------------------------
(* C20: the middleware hands a request to the next handler only if its      *)
(* path is /healthz, or its X-API-Key equals a non-empty API_KEY, or its    *)
(* Basic user and password equal BASIC_AUTH_USER and BASIC_AUTH_PASS with   *)
(* BASIC_AUTH_USER non-empty; every other request gets 401 and does not     *)
(* reach the handler, in particular when API_KEY and BASIC_AUTH_USER are    *)
(* both unset.                                                              *)

\* the user and the password of a request with Basic credentials
HasBasicCredentials(req) ==
    /\ req.authorization.scheme = "Basic "
    /\ \E i \in 1..Len(req.authorization.text) : req.authorization.text[i] = ":"

BasicUser(req) ==
    LET t == req.authorization.text
    IN  SubSeq(t, 1, (CHOOSE i \in 1..Len(t) :
                          t[i] = ":" /\ \A j \in 1..(i - 1) : t[j] # ":") - 1)

BasicPass(req) ==
    LET t == req.authorization.text
    IN  SubSeq(t, Len(BasicUser(req)) + 2, Len(t))

Allowed(req, env) ==
    \/ req.path = "/healthz"
    \/ (env.API_KEY # <<>> /\ req.apiKey = env.API_KEY)
    \/ /\ env.BASIC_AUTH_USER # <<>>
       /\ HasBasicCredentials(req)
       /\ BasicUser(req) = env.BASIC_AUTH_USER
       /\ BasicPass(req) = env.BASIC_AUTH_PASS

C20_OnlyAuthenticatedReachHandler ==
    auth.served =>
        /\ auth.reached => Allowed(auth.req, auth.env)
        /\ ~Allowed(auth.req, auth.env) =>
              (auth.status = StatusUnauthorized /\ ~auth.reached)
        /\ (auth.env.API_KEY = <<>> /\ auth.env.BASIC_AUTH_USER = <<>>
            /\ auth.req.path # "/healthz") =>
              (auth.status = StatusUnauthorized /\ ~auth.reached)

\* a server without API_KEY and BASIC_AUTH_USER has refused a request that
\* sent no X-API-Key and the Basic credentials ":" (empty user and password)
C20_Witness ==
    /\ auth.served
    /\ auth.env.API_KEY = <<>> /\ auth.env.BASIC_AUTH_USER = <<>>
    /\ auth.env.BASIC_AUTH_PASS = <<>>
    /\ auth.req.path = "/v1/chat" /\ auth.req.apiKey = <<>>
    /\ auth.req.authorization = [scheme |-> "Basic ", text |-> <<":">>,
                                 garbage |-> FALSE]
    /\ auth.status = StatusUnauthorized /\ ~auth.reached

----------------------------------------------------------------------------
DoUpsertTraced == UpsertTraced({<<"u1">>}, StoreContents, StoreVecs, TRUE)

NextPartial == DoUpsertTraced \/ DoClean

SpecPartial == Init /\ [][NextPartial]_vars

(* C21: when the embedding call for chunk i of a document fails in          *)
(* upsertDocument, the call returns an error, the document row and the      *)
(* chunk rows of the positions 0..i-1 stay in the store, and no chunk row   *)
(* of a position >= i is inserted.                                          *)
C21_PartialUpsertIsKept ==
    [][(last'.op = "upsertDocument" /\ last'.embedErr) =>
         LET i == last'.embedCalls - 1
         IN  /\ last'.err
             /\ \E d \in documents' \ documents :
                   /\ d.id = last'.n
                   /\ documents' = documents \cup {d}
                   /\ Len(embeddings') = Len(embeddings) + i
                   /\ SubSeq(embeddings', 1, Len(embeddings)) = embeddings
                   /\ \A k \in 1..i :
                         /\ embeddings'[Len(embeddings) + k].document_id = d.id
                         /\ embeddings'[Len(embeddings) + k].position = k - 1
      ]_vars

\* the embedding call for chunk 2 of a three-chunk document has failed: the
\* document row and the rows of the positions 0 and 1 are in the store
C21_Witness ==
    /\ last.op = "upsertDocument" /\ last.embedErr /\ last.err
    /\ last.embedCalls = 3
    /\ \E d \in documents :
          /\ d.id = last.n
          /\ Len(ContentChunks(d.content)) = 3
          /\ Len(RowsOf(embeddings, d.id)) = 2

----------------------------------------------------------------------------
(* C22: in one run of IngestKialiDocs no URL is fetched twice: a dequeued   *)
(* URL that is in the visited set is dropped without a fetch, a dequeued    *)
(* URL is in the visited set by the time it is fetched, and a link joins    *)
(* the queue only if it is not in the visited set.                          *)
C22_EachURLFetchedOnce ==
    [][(ingest.op = "IngestKialiDocs" /\ ingest'.op = "IngestKialiDocs") =>
         /\ NoDuplicate(ingest'.fetches)
         /\ \A i \in 1..Len(ingest'.fetches) :
               ingest'.fetches[i] \in ingest'.visited
         /\ last'.op = "dequeue" =>
               LET curr == Head(ingest.queue)
               IN  /\ curr \in ingest'.visited
                   /\ curr \in ingest.visited =>
                         /\ ingest'.fetches = ingest.fetches
                         /\ ingest'.visited = ingest.visited
                         /\ ingest'.pc = "loop"
                   /\ ingest'.fetches # ingest.fetches =>
                         /\ ingest'.fetches = Append(ingest.fetches, curr)
                         /\ curr \notin ingest.visited
         /\ last'.op = "links" =>
               /\ Len(ingest'.queue) >= Len(ingest.queue)
               /\ SubSeq(ingest'.queue, 1, Len(ingest.queue)) = ingest.queue
               /\ \A i \in (Len(ingest.queue) + 1)..Len(ingest'.queue) :
                     ingest'.queue[i] \notin ingest.visited
      ]_vars

\* page A links to B twice, so B was queued twice: its second copy has just
\* been dequeued and dropped without a fetch
C22_Witness ==
    /\ ingest.op = "IngestKialiDocs"
    /\ last.op = "dequeue" /\ ~last.fault
    /\ ingest.pc = "loop"
    /\ ingest.queue = <<>>
    /\ ingest.fetches = <<A, B>>
    /\ ingest.visited = {A, B}
    /\ Len(SelectSeq(web[A].links, LAMBDA h : resolveURL(A, h) = B)) >= 2

----------------------------------------------------------------------------
(* C23: IngestKialiDocs fetches no URL whose host is not in the kiali.io    *)
(* domain, the name of the domain occurring in the path or not.             *)
C23_NoOffDomainFetch ==
    ingest.op = "IngestKialiDocs" =>
        \A i \in 1..Len(ingest.fetches) :
            Contains(<<Host(ingest.fetches[i])>>, <<"kiali.io">>)

----------------------------------------------------------------------------
----------------------------------------------------------------------------
\* whether a part of the input is a URL
NamesURL(parts) ==
    \E i \in 1..Len(parts) : IsAbs(TrimPart(parts[i]))

(* C25: IngestYouTube called with a reference that holds no URL returns an  *)
(* error at once: no playlist is expanded, nothing is fetched, no storage   *)
(* call is made and the store is as it was.                                 *)
C25_NoURLGivesError ==
    [][(ingest'.op = "IngestYouTube" /\ ingest'.calls = ingest.calls + 1
          /\ ~NamesURL(last'.query)) =>
         /\ last'.op = "IngestYouTube" /\ last'.err
         /\ ingest'.pc = "done"
         /\ ingest'.pending = <<>>
         /\ UNCHANGED <<documents, embeddings, nextId>>
      ]_vars

----------------------------------------------------------------------------
(* C26: an Answer call that succeeds returns at most AnswerK citations, one *)
(* per retrieved chunk - none on an empty store -, each with the title and  *)
(* the URL of the chunk's document and the snippet stored with the chunk.   *)
C26_CitationsCarryStoredSnippets ==
    (last.op = "Answer" /\ last.answered) =>
        LET rows == JoinRows(documents, embeddings)
        IN  /\ Len(last.out) = min(AnswerK, Len(rows))
            /\ \A i \in 1..Len(last.out) :
                  \E j \in 1..Len(rows) :
                      /\ last.out[i].Title = rows[j].d.title
                      /\ last.out[i].URL = rows[j].d.url
                      /\ last.out[i].Span = [text |-> rows[j].e.snippet]

----------------------------------------------------------------------------
(* The cosine specification: cosine applied to every pair of vectors of at  *)
(* most MaxVecLen components.                                               *)

CosVectors == UNION {[1..n -> DOMAIN FloatVal] : n \in 0..MaxVecLen}

InitCosine ==
    /\ InitStore
    /\ ChunkIdle
    /\ IngestIdle
    /\ playlist = IdlePlaylist
    /\ ProcsIdle
    /\ AuthIdle
    /\ \E a \in CosVectors, b \in CosVectors :
         calc = [IdleCalc EXCEPT !.a = a, !.b = b]

CosineCall ==
    /\ calc.op = "none"
    /\ calc' = [calc EXCEPT !.op = "cosine", !.sim = cosine(calc.a, calc.b)]
    /\ UNCHANGED <<storeVars, chunkVars, ingestVars, playlist, concVars, auth>>

NextCosine == CosineCall

SpecCosine == InitCosine /\ [][NextCosine]_vars

\* every component is 0.0
ZeroNorm(v) == \A i \in 1..Len(v) : FloatVal[v[i]] = 0

(* C27: cosine(a, b) is 0 when a or b has only zero components, no division *)
(* by zero being made, and cosine(a, a) is 1 when a has a component that is *)
(* not zero.                                                                *)
C27_ZeroNormAndSelfSimilarity ==
    (calc.op = "cosine" /\ Len(calc.a) <= Len(calc.b)) =>
        /\ ~calc.sim.panic
        /\ calc.sim.na > 0 /\ calc.sim.nb > 0
        /\ (ZeroNorm(calc.a) \/ ZeroNorm(calc.b)) =>
              /\ calc.sim = SimZero
              /\ Milli(calc.sim) = 0
        /\ (calc.a = calc.b /\ ~ZeroNorm(calc.a)) =>
              /\ calc.sim.num > 0
              /\ calc.sim.num * calc.sim.num = calc.sim.na * calc.sim.nb
              /\ Milli(calc.sim) = 1000

\* cosine of the zero vector and (1.0, 2.0) has been computed
C27_Witness ==
    /\ calc.op = "cosine"
    /\ calc.a = <<F32(0), F32(0)>>
    /\ calc.b = <<F32(1), F32(2)>>
    /\ calc.sim = SimZero

----------------------------------------------------------------------------
(* The blob specification: floatsToBlob applied to every vector of at most  *)
(* MaxVecLen bit patterns and blobToFloats to its result, and blobToFloats  *)
(* applied to every byte string of at most MaxBlobLen bytes.                *)

\* float32 bit patterns: 0.0, 1.0, 0x01020304, the NaN 0x7FFFFFFF and -1.0
\* (0xBF800000)
BitPatterns == {0, 1065353216, 16909060, 2147483647, -1082130432}

BitVectors == UNION {[1..n -> BitPatterns] : n \in 0..MaxVecLen}

Blobs == UNION {[1..n -> {0, 1, 255}] : n \in 0..MaxBlobLen}

InitBlob ==
    /\ InitStore
    /\ ChunkIdle
    /\ IngestIdle
    /\ playlist = IdlePlaylist
    /\ ProcsIdle
    /\ AuthIdle
    /\ \/ \E v \in BitVectors : calc = [IdleCalc EXCEPT !.a = v]
       \/ \E b \in Blobs : calc = [IdleCalc EXCEPT !.blob = b]

\* floatsToBlob of the vector given
FloatsToBlobCall ==
    /\ calc.op = "none"
    /\ calc.blob = <<>>
    /\ calc' = [calc EXCEPT !.op = "floatsToBlob", !.blob = floatsToBlob(calc.a)]
    /\ UNCHANGED <<storeVars, chunkVars, ingestVars, playlist, concVars, auth>>

\* blobToFloats of the blob given, or of the blob floatsToBlob has returned
BlobToFloatsCall ==
    /\ \/ calc.op = "none" /\ calc.a = <<>>
       \/ calc.op = "floatsToBlob"
    /\ calc' = [calc EXCEPT !.op = IF calc.op = "none" THEN "blobToFloats"
                                   ELSE "roundtrip",
                            !.out = blobToFloats(calc.blob)]
    /\ UNCHANGED <<storeVars, chunkVars, ingestVars, playlist, concVars, auth>>

NextBlob == FloatsToBlobCall \/ BlobToFloatsCall

SpecBlob == InitBlob /\ [][NextBlob]_vars

(* C28: floatsToBlob(v) has 4 * len(v) bytes, the four bytes of an element  *)
(* being its bit pattern with the least significant byte first;             *)
(* blobToFloats of it has the length of v and the bit pattern of v at every *)
(* position; blobToFloats of a blob whose length is no multiple of 4 gives  *)
(* no vector.                                                               *)
C28_BlobRoundTrip ==
    /\ calc.op \in {"floatsToBlob", "roundtrip"} =>
          /\ Len(calc.blob) = 4 * Len(calc.a)
          /\ \A j \in 1..Len(calc.blob) : calc.blob[j] \in 0..255
          /\ \A i \in 1..Len(calc.a) : \A k \in 0..3 :
                calc.blob[4 * (i - 1) + k + 1] = (calc.a[i] \div (256 ^ k)) % 256
    /\ calc.op = "roundtrip" =>
          /\ Len(calc.out) = Len(calc.a)
          /\ \A i \in 1..Len(calc.a) : calc.out[i] = calc.a[i]
    /\ (calc.op = "blobToFloats" /\ Len(calc.blob) % 4 # 0) => calc.out = <<>>

\* the vector (0x01020304, -1.0) has been encoded and decoded again
C28_Witness ==
    /\ calc.op = "roundtrip"
    /\ calc.a = <<16909060, -1082130432>>
    /\ calc.blob = <<4, 3, 2, 1, 0, 0, 128, 191>>
    /\ calc.out = calc.a

----------------------------------------------------------------------------
\* the document rows that lack chunk rows
PartialDocs ==
    {d \in documents :
        Len(RowsOf(embeddings, d.id)) < Len(ContentChunks(d.content))}

\* the step made is the check of a section or item whose URL has such a row
MeetsPartial ==
    /\ last'.op \in {"section", "item"}
    /\ PendingIsChecked
    /\ \E d \in PartialDocs : d.url = PendingURL

----------------------------------------------------------------------------
\* upsertDocument has run for the URL in the step: it failed, or it inserted a
\* document row of the URL and the step counted it as ingested
UpsertRan ==
    \/ /\ last'.err
       /\ ingest'.ingested = ingest.ingested
    \/ /\ ~last'.err
       /\ ingest'.ingested = ingest.ingested + 1
       /\ last'.embedCalls >= 1
       /\ \E d \in documents' \ documents :
             /\ d.url = PendingURL
             /\ documents' = documents \cup {d}
             /\ RowsOf(embeddings', d.id) # <<>>

(* C30: when the documentExists query of a section or item fails, the URL   *)
(* is taken as absent: it is not counted as skipped, IngestYouTube fetches  *)
(* it, and upsertDocument runs for it as for a new URL, so that a URL that  *)
(* has a document row gets a second one, embedded again.                    *)
C30_FailedCheckCountsAsAbsent ==
    [][(last'.op \in {"section", "item"} /\ last'.fault /\ PendingIsChecked) =>
         /\ ingest'.skipped = ingest.skipped
         /\ last'.op = "section" => UpsertRan
         /\ last'.op = "item" =>
               /\ ingest'.fetches = Append(ingest.fetches, PendingURL)
               /\ IF BodyUnusable(last'.body)
                  THEN UNCHANGED <<documents, embeddings, nextId>>
                  ELSE UpsertRan
      ]_vars

\* the documentExists query of a stored URL has failed, and the URL has been
\* embedded and inserted a second time
C30_Witness ==
    /\ last.op \in {"section", "item"}
    /\ last.fault /\ ~last.err
    /\ last.embedCalls >= 1
    /\ ingest.calls = 2
    /\ \E d1, d2 \in documents :
          /\ d1.id < d2.id
          /\ d1.url = last.url /\ d2.url = last.url
          /\ RowsOf(embeddings, d1.id) # <<>>
          /\ RowsOf(embeddings, d2.id) # <<>>

====
